---- MODULE Spec2Model ----
(***************************************************************************)
(* servicenow-dev-mcp: the MCP server's tool handlers.                     *)
(*                                                                         *)
(* A string is a sequence of tokens.  A token is either one character of   *)
(* a caller- or subprocess-supplied value ("a", " ", "\n") or one literal  *)
(* chunk of a template of the source ("npx now-sdk auth --add ").          *)
(* Concatenation of template pieces is \o.                                 *)
(***************************************************************************)
EXTENDS Integers, Sequences, FiniteSets, TLC

VARIABLES
    envAlias,       \* process.env.SNC_DEFAULT_AUTH_ALIAS, read at module load
    DEFAULT_AUTH,   \* the module-level const of sdk-commands.ts
    calls,          \* one record per tool call handled by the server
    norm            \* a run of the Identifier Normalizer on its own

vars == <<envAlias, DEFAULT_AUTH, calls, norm>>

-----------------------------------------------------------------------------
(* Bounds *)

\* number of tool calls the host may have in flight together
NumCalls == 2

\* longest input string given to the Identifier Normalizer
MaxLen == 3

-----------------------------------------------------------------------------
(* JavaScript values *)

\* an absent (undefined) field
Undef == <<"<undefined>">>

\* a value of the wrong primitive type (a number where a string is declared)
NotAString == <<"<number>">>

\* JavaScript truthiness of an optional string
Truthy(v) == v # Undef /\ v # <<>>

\* a ?? b in the place of a || b: the empty string is kept
OrNullish(a, b) == IF a # Undef THEN a ELSE b

\* a || b on optional strings
Or(a, b) == IF Truthy(a) THEN a ELSE b

WhiteSpace == {" ", "\n", "\t"}

RECURSIVE TrimStart(_)
TrimStart(s) ==
    IF s # <<>> /\ Head(s) \in WhiteSpace THEN TrimStart(Tail(s)) ELSE s

RECURSIVE TrimEnd(_)
TrimEnd(s) ==
    IF s # <<>> /\ s[Len(s)] \in WhiteSpace
    THEN TrimEnd(SubSeq(s, 1, Len(s) - 1))
    ELSE s

\* String.prototype.trim
Trim(s) == TrimEnd(TrimStart(s))

\* Array.prototype.join
RECURSIVE Join(_, _)
Join(parts, sep) ==
    IF parts = <<>> THEN <<>>
    ELSE IF Len(parts) = 1 THEN parts[1]
    ELSE parts[1] \o sep \o Join(Tail(parts), sep)

\* s occurs in t as a contiguous piece
Contains(t, s) ==
    \E i \in 0..(Len(t) - Len(s)) : SubSeq(t, i + 1, i + Len(s)) = s

-----------------------------------------------------------------------------
(* External Command Invoker: runSdk *)

TIMEOUT_MS == 120000

LiteralDefaultAlias == <<"dev252193">>

\* const DEFAULT_AUTH = process.env.SNC_DEFAULT_AUTH_ALIAS || "dev252193"
LoadDefaultAuth(env) == Or(env, LiteralDefaultAlias)

ProcessCwd == <<"<process.cwd()>">>

NoProc == [command |-> <<>>, cwd |-> <<>>, timeout |-> 0, FORCE_COLOR |-> ""]
NoOutcome == [kind |-> "none", stdout |-> <<>>, stderr |-> <<>>,
              message |-> <<>>, isErrorObject |-> FALSE]
NoResp == [text |-> <<>>, isError |-> FALSE, blocks |-> 0]

\* the options runSdk hands to execAsync
ExecOptions(command, cwd) ==
    [command |-> command,
     cwd |-> Or(cwd, ProcessCwd),
     timeout |-> TIMEOUT_MS,
     FORCE_COLOR |-> "0"]

\* the try branch of runSdk after the await: the promise resolved
\* runSdk without the .trim()
runSdkResolveUntrimmed(out) ==
    [text |-> Or(out.stdout, Or(out.stderr, <<"Command completed successfully.">>)),
     isError |-> FALSE,
     blocks |-> 1]

runSdkResolve(out) ==
    [text |-> Trim(Or(out.stdout, Or(out.stderr, <<"Command completed successfully.">>))),
     isError |-> FALSE,
     blocks |-> 1]

\* runSdk returning the error text without the isError flag
runSdkCatchNoFlag(error) ==
    [text |-> <<"Error: ">> \o Or(error.stderr, error.message),
     isError |-> FALSE, blocks |-> 1]

\* runSdk reporting error.message whatever the subprocess wrote
runSdkCatchMessageOnly(error) ==
    [text |-> <<"Error: ">> \o error.message, isError |-> TRUE, blocks |-> 1]

\* the catch branch of runSdk: the promise rejected with `error`
runSdkCatch(error) ==
    LET msg == IF error.isErrorObject
               THEN Or(error.stderr, error.message)
               ELSE <<"<String(error)>">>
    IN  [text |-> <<"Error: ">> \o msg, isError |-> TRUE, blocks |-> 1]

-----------------------------------------------------------------------------
(* Schema Validator: the shapes handed to server.tool *)

IsString(v) == v # Undef /\ v # NotAString

NoEnums == [f \in {} |-> [values |-> {}, default |-> Undef]]

\* the declared input shape of each CLI-wrapper tool:
\*   req  - z.string()            opt - z.string().optional()
\*   enum - z.enum([...]).default(...)
AuthTypes == {<<"basic">>, <<"oauth">>}

Templates ==
    {<<"base">>, <<"configuration">>, <<"typescript.basic">>, <<"typescript.react">>,
     <<"typescript.vue">>, <<"javascript.basic">>, <<"javascript.react">>,
     <<"partial.typescript.react">>, <<"partial.typescript.vue">>,
     <<"partial.javascript.react">>}

SdkShape(tool) ==
    CASE tool = "snc_auth_list" ->
            [req |-> {}, opt |-> {}, enum |-> NoEnums]
      [] tool = "snc_auth_add" ->
            [req |-> {"instance"}, opt |-> {"alias"},
             enum |-> [f \in {"type"} |-> [values |-> AuthTypes, default |-> <<"basic">>]]]
      [] tool = "snc_auth_use" ->
            [req |-> {"alias"}, opt |-> {}, enum |-> NoEnums]
      [] tool = "snc_init" ->
            [req |-> {"appName", "scopeName"},
             opt |-> {"packageName", "auth", "directory"},
             enum |-> [f \in {"template"} |->
                          [values |-> Templates, default |-> <<"typescript.basic">>]]]
      [] tool = "snc_build" ->
            [req |-> {}, opt |-> {"directory"}, enum |-> NoEnums]
      [] tool = "snc_install" ->
            [req |-> {}, opt |-> {"directory", "auth"}, enum |-> NoEnums]
      [] tool = "snc_dependencies" ->
            [req |-> {}, opt |-> {"directory", "auth"}, enum |-> NoEnums]
      [] tool = "snc_transform" ->
            [req |-> {}, opt |-> {"from", "directory", "auth"}, enum |-> NoEnums]
      [] tool = "snc_clean" ->
            [req |-> {}, opt |-> {"directory"}, enum |-> NoEnums]

\* the fields of a raw payload that fail the shape
SdkFailing(tool, raw) ==
    LET sh == SdkShape(tool)
    IN  {f \in sh.req : ~IsString(raw[f])}
        \cup {f \in sh.opt : raw[f] = NotAString}
        \cup {f \in DOMAIN sh.enum :
                 /\ ~(raw[f] = Undef /\ sh.enum[f].default # Undef)
                 /\ raw[f] \notin sh.enum[f].values}

\* the validated object: defaults filled in
SdkParsed(tool, raw) ==
    LET sh == SdkShape(tool)
    IN  [f \in DOMAIN raw |->
            IF f \in DOMAIN sh.enum /\ raw[f] = Undef
            THEN sh.enum[f].default
            ELSE raw[f]]

-----------------------------------------------------------------------------
(* CLI-wrapper tool handlers.  A handler either answers at once or hands a *)
(* command line to runSdk.                                                 *)

Respond(text) ==
    [kind |-> "respond", text |-> text, command |-> <<>>, cwd |-> Undef]

Invoke(command, cwd) ==
    [kind |-> "spawn", text |-> <<>>, command |-> command, cwd |-> cwd]

\* parts.push(x) when cond
PushIf(parts, cond, x) == IF cond THEN Append(parts, x) ELSE parts

snc_auth_list(a) == Invoke(<<"npx now-sdk auth --list">>, Undef)

\* snc_auth_add running its command like the other wrappers
snc_auth_add_viaRunSdk(a) ==
    LET al == Or(a.alias, a.instance)
    IN  Invoke(<<"npx now-sdk auth --add ">> \o a.instance \o <<" --type ">> \o a.type
                   \o <<" --alias ">> \o al,
               Undef)

snc_auth_add(a) ==
    LET al  == Or(a.alias, a.instance)
        cmd == <<"npx now-sdk auth --add ">> \o a.instance \o <<" --type ">> \o a.type
                  \o <<" --alias ">> \o al
    IN  Respond(<<"This command requires interactive input (username/password). Run it in your terminal:\n\n">>
                \o cmd
                \o <<"\n\nThen set as default:\nnpx now-sdk auth --use ">>
                \o al)

snc_auth_use(a) == Invoke(<<"npx now-sdk auth --use ">> \o a.alias, Undef)

snc_init(a, defaultAuth) ==
    LET p0 == << <<"npx now-sdk init">>,
                 <<"--appName \"">> \o a.appName \o <<"\"">>,
                 <<"--scopeName \"">> \o a.scopeName \o <<"\"">>,
                 <<"--template ">> \o a.template >>
        p1 == PushIf(p0, Truthy(a.packageName),
                     <<"--packageName \"">> \o a.packageName \o <<"\"">>)
        p2 == Append(p1, <<"--auth ">> \o Or(a.auth, defaultAuth))
    IN  Invoke(Join(p2, <<" ">>), a.directory)

snc_build(a) == Invoke(<<"npx now-sdk build">>, a.directory)

snc_install(a, defaultAuth) ==
    LET p0 == << <<"npx now-sdk install">> >>
        p1 == PushIf(p0, Truthy(a.auth), <<"--auth ">> \o a.auth)
    IN  Invoke(Join(p1, <<" ">>), a.directory)

snc_dependencies(a, defaultAuth) ==
    LET p0 == << <<"npx now-sdk dependencies">> >>
        p1 == PushIf(p0, Truthy(a.auth), <<"--auth ">> \o a.auth)
    IN  Invoke(Join(p1, <<" ">>), a.directory)

snc_transform(a, defaultAuth) ==
    LET p0 == << <<"npx now-sdk transform">> >>
        p1 == PushIf(p0, Truthy(a.from), <<"--from \"">> \o a.from \o <<"\"">>)
        p2 == PushIf(p1, Truthy(a.auth), <<"--auth ">> \o a.auth)
    IN  Invoke(Join(p2, <<" ">>), a.directory)

snc_clean(a) == Invoke(<<"npx now-sdk clean">>, a.directory)

SdkTools ==
    {"snc_auth_list", "snc_auth_add", "snc_auth_use", "snc_init", "snc_build",
     "snc_install", "snc_dependencies", "snc_transform", "snc_clean"}

\* registerSdkCommandTools: the handler registered under each name
SdkHandler(tool, a, defaultAuth) ==
    CASE tool = "snc_auth_list"    -> snc_auth_list(a)
      [] tool = "snc_auth_add"     -> snc_auth_add(a)
      [] tool = "snc_auth_use"     -> snc_auth_use(a)
      [] tool = "snc_init"         -> snc_init(a, defaultAuth)
      [] tool = "snc_build"        -> snc_build(a)
      [] tool = "snc_install"      -> snc_install(a, defaultAuth)
      [] tool = "snc_dependencies" -> snc_dependencies(a, defaultAuth)
      [] tool = "snc_transform"    -> snc_transform(a, defaultAuth)
      [] tool = "snc_clean"        -> snc_clean(a)

-----------------------------------------------------------------------------
(* Identifier Normalizer: idKey *)

UpperCase ==
    <<"A", "B", "C", "D", "E", "F", "G", "H", "I", "J", "K", "L", "M",
      "N", "O", "P", "Q", "R", "S", "T", "U", "V", "W", "X", "Y", "Z">>

LowerCase ==
    <<"a", "b", "c", "d", "e", "f", "g", "h", "i", "j", "k", "l", "m",
      "n", "o", "p", "q", "r", "s", "t", "u", "v", "w", "x", "y", "z">>

Digit == {"0", "1", "2", "3", "4", "5", "6", "7", "8", "9"}

Range(f) == {f[i] : i \in DOMAIN f}

\* the character class [a-zA-Z0-9_]
WordChar(ch) == ch \in Range(UpperCase) \cup Range(LowerCase) \cup Digit \cup {"_"}

\* String.prototype.toLowerCase on one character
ToLowerChar(ch) ==
    IF ch \in Range(UpperCase)
    THEN LowerCase[CHOOSE i \in DOMAIN UpperCase : UpperCase[i] = ch]
    ELSE ch

ToLowerCase(s) == [i \in 1..Len(s) |-> ToLowerChar(s[i])]

\* s.replace(/[^a-zA-Z0-9_]/g, "_")
ReplaceNonWord(s) == [i \in 1..Len(s) |-> IF WordChar(s[i]) THEN s[i] ELSE "_"]

\* s.replace(/\./g, "_")
ReplaceDots(s) == [i \in 1..Len(s) |-> IF s[i] = "." THEN "_" ELSE s[i]]

\* idKey with the regular expression's g flag dropped: only the first match
\* is replaced
idKeyFirstMatchOnly(name) ==
    ToLowerCase([i \in 1..Len(name) |->
                    IF ~WordChar(name[i]) /\ \A j \in 1..(i - 1) : WordChar(name[j])
                    THEN "_"
                    ELSE name[i]])

idKey(name) == ToLowerCase(ReplaceNonWord(name))

\* the characters of a word the program writes as a literal or an enum value
Spell(word) ==
    CASE word = "log"          -> <<"l", "o", "g">>
      [] word = "updateRecord" -> <<"u", "p", "d", "a", "t", "e", "R", "e", "c", "o", "r", "d">>
      [] word = "sendEmail"    -> <<"s", "e", "n", "d", "E", "m", "a", "i", "l">>
      [] word = "lookUpRecord" -> <<"l", "o", "o", "k", "U", "p", "R", "e", "c", "o", "r", "d">>
      [] word = "create"       -> <<"c", "r", "e", "a", "t", "e">>
      [] word = "read"         -> <<"r", "e", "a", "d">>
      [] word = "write"        -> <<"w", "r", "i", "t", "e">>
      [] word = "delete"       -> <<"d", "e", "l", "e", "t", "e">>
      [] word = "ws_"          -> <<"w", "s", "_">>
      [] word = "_view"        -> <<"_", "v", "i", "e", "w">>
      [] word = "_list"        -> <<"_", "l", "i", "s", "t">>
      [] OTHER                 -> <<word>>

\* a loop that puts each piece in front of what it has written so far
RECURSIVE ConcatReversed(_)
ConcatReversed(ss) == IF ss = <<>> THEN <<>> ELSE ConcatReversed(Tail(ss)) \o Head(ss)

\* concatenation of a sequence of strings
RECURSIVE Concat(_)
Concat(ss) == IF ss = <<>> THEN <<>> ELSE Head(ss) \o Concat(Tail(ss))

-----------------------------------------------------------------------------
(* Code Emitters: helpers *)

ColumnTypes ==
    {<<"string">>, <<"integer">>, <<"boolean">>, <<"date">>, <<"datetime">>,
     <<"decimal">>, <<"reference">>, <<"choice">>}

columnTypeImport(type) ==
    CASE type = <<"string">>    -> <<"StringColumn">>
      [] type = <<"integer">>   -> <<"IntegerColumn">>
      [] type = <<"boolean">>   -> <<"BooleanColumn">>
      [] type = <<"date">>      -> <<"DateColumn">>
      [] type = <<"datetime">>  -> <<"DateTimeColumn">>
      [] type = <<"decimal">>   -> <<"DecimalColumn">>
      [] type = <<"reference">> -> <<"ReferenceColumn">>
      [] type = <<"choice">>    -> <<"ChoiceColumn">>
      [] OTHER                  -> <<"StringColumn">>

\* an absent record(string -> string); a present one is the sequence of its
\* entries in Object.entries order
NoMap == << [k |-> Undef, v |-> Undef] >>

\* JavaScript truthiness of an optional boolean and of an optional number
TrueBool(b) == b = <<"true">>

\* `if (col.maxLength !== undefined)`: a number that is there, 0 included
TruthyNumPresent(n) == n # Undef

TruthyNum(n) == n # Undef /\ n # <<"0">>

\* the choice entries numbered by their index in the mapping, from 0
generateColumnCodeZeroBased(col, indent) ==
    LET p0 == << <<"label: '">> \o col.label \o <<"'">> >>
        p1 == PushIf(p0, TrueBool(col.mandatory), <<"mandatory: true">>)
        p2 == PushIf(p1, TruthyNum(col.maxLength), <<"maxLength: ">> \o col.maxLength)
        p3 == PushIf(p2, col.defaultValue # Undef,
                     <<"default: '">> \o col.defaultValue \o <<"'">>)
        p4 == PushIf(p3, col.type = <<"reference">> /\ Truthy(col.referenceTable),
                     <<"referenceTable: '">> \o col.referenceTable \o <<"'">>)
        entries ==
            Join([i \in 1..Len(col.choices) |->
                     indent \o <<"            ">> \o col.choices[i].k
                        \o <<": { label: '">> \o col.choices[i].v
                        \o <<"', sequence: ", ToString(i - 1), " }">>],
                 <<",\n">>)
        p5 == PushIf(p4, col.type = <<"choice">> /\ col.choices # NoMap,
                     <<"choices: {\n">> \o entries \o <<",\n">> \o indent
                        \o <<"        }">>)
        typeFn == columnTypeImport(col.type)
        propsStr == Join(p5, <<",\n">> \o indent \o <<"            ">>)
    IN  indent \o <<"        ">> \o col.name \o <<": ">> \o typeFn \o <<"({\n">>
            \o indent \o <<"            ">> \o propsStr \o <<",\n">>
            \o indent \o <<"        })">>

\* the properties pushed in the order the ColumnSpec shape declares them
generateColumnCodeDeclaredOrder(col, indent) ==
    LET p0 == << <<"label: '">> \o col.label \o <<"'">> >>
        p1 == PushIf(p0, TrueBool(col.mandatory), <<"mandatory: true">>)
        p2 == PushIf(p1, TruthyNum(col.maxLength), <<"maxLength: ">> \o col.maxLength)
        p3 == PushIf(p2, col.type = <<"reference">> /\ Truthy(col.referenceTable),
                     <<"referenceTable: '">> \o col.referenceTable \o <<"'">>)
        entries ==
            Join([i \in 1..Len(col.choices) |->
                     indent \o <<"            ">> \o col.choices[i].k
                        \o <<": { label: '">> \o col.choices[i].v
                        \o <<"', sequence: ", ToString(i), " }">>],
                 <<",\n">>)
        p4 == PushIf(p3, col.type = <<"choice">> /\ col.choices # NoMap,
                     <<"choices: {\n">> \o entries \o <<",\n">> \o indent
                        \o <<"        }">>)
        p5 == PushIf(p4, col.defaultValue # Undef,
                     <<"default: '">> \o col.defaultValue \o <<"'">>)
        typeFn == columnTypeImport(col.type)
        propsStr == Join(p5, <<",\n">> \o indent \o <<"            ">>)
    IN  indent \o <<"        ">> \o col.name \o <<": ">> \o typeFn \o <<"({\n">>
            \o indent \o <<"            ">> \o propsStr \o <<",\n">>
            \o indent \o <<"        })">>

\* generateColumnCode: one column of the schema block
generateColumnCode(col, indent) ==
    LET p0 == << <<"label: '">> \o col.label \o <<"'">> >>
        p1 == PushIf(p0, TrueBool(col.mandatory), <<"mandatory: true">>)
        p2 == PushIf(p1, TruthyNum(col.maxLength), <<"maxLength: ">> \o col.maxLength)
        p3 == PushIf(p2, col.defaultValue # Undef,
                     <<"default: '">> \o col.defaultValue \o <<"'">>)
        p4 == PushIf(p3, col.type = <<"reference">> /\ Truthy(col.referenceTable),
                     <<"referenceTable: '">> \o col.referenceTable \o <<"'">>)
        entries ==
            Join([i \in 1..Len(col.choices) |->
                     indent \o <<"            ">> \o col.choices[i].k
                        \o <<": { label: '">> \o col.choices[i].v
                        \o <<"', sequence: ", ToString(i), " }">>],
                 <<",\n">>)
        p5 == PushIf(p4, col.type = <<"choice">> /\ col.choices # NoMap,
                     <<"choices: {\n">> \o entries \o <<",\n">> \o indent
                        \o <<"        }">>)
        typeFn == columnTypeImport(col.type)
        propsStr == Join(p5, <<",\n">> \o indent \o <<"            ">>)
    IN  indent \o <<"        ">> \o col.name \o <<": ">> \o typeFn \o <<"({\n">>
            \o indent \o <<"            ">> \o propsStr \o <<",\n">>
            \o indent \o <<"        })">>

\* Array.from(imports).sort() over the names the import set can hold
SortedImportNames ==
    << <<"BooleanColumn">>, <<"ChoiceColumn">>, <<"DateColumn">>, <<"DateTimeColumn">>,
       <<"DecimalColumn">>, <<"IntegerColumn">>, <<"ReferenceColumn">>,
       <<"StringColumn">>, <<"Table">> >>

\* the import names sorted before Table is added in front of them
SortImportsTableFirst(imports) ==
    << <<"Table">> >> \o SelectSeq(SortedImportNames,
                                   LAMBDA n : n \in imports /\ n # <<"Table">>)

SortImports(imports) == SelectSeq(SortedImportNames, LAMBDA n : n \in imports)

-----------------------------------------------------------------------------
(* Code Emitters: the seven generator handlers *)

snc_generate_table(a) ==
    LET imports == {<<"Table">>}
                     \cup {columnTypeImport(a.columns[i].type) : i \in 1..Len(a.columns)}
        importList == Join(SortImports(imports), <<", ">>)
        colCode == Join([i \in 1..Len(a.columns) |-> generateColumnCode(a.columns[i], <<>>)],
                        <<",\n">>)
        varName == ReplaceDots(a.tableName)
    IN  Respond(
            <<"import { ">> \o importList \o <<" } from '@servicenow/sdk/core'\n\n">>
            \o <<"export const ">> \o varName \o <<" = Table({\n">>
            \o <<"    name: '">> \o a.tableName \o <<"',\n">>
            \o <<"    label: '">> \o a.label \o <<"',\n">>
            \o <<"    schema: {\n">> \o colCode \o <<",\n    },\n">>
            \o (IF Truthy(a.displayColumn)
                THEN <<"    display: '">> \o a.displayColumn \o <<"',\n">>
                ELSE <<>>)
            \o <<"})\n">>)

\* name.split(".").pop(): the part after the last "."
RECURSIVE LastSegment(_)
LastSegment(s) ==
    IF \E i \in 1..Len(s) : s[i] = "."
    THEN LastSegment(Tail(s))
    ELSE s

\* the role emitter normalizing the whole name instead of its last segment
snc_generate_roleWholeName(a) ==
    LET varName == Or(a.exportName, idKey(a.name))
    IN  Respond(
            <<"import { Role } from '@servicenow/sdk/core'\n\n">>
            \o <<"export const ">> \o varName \o <<" = Role({\n">>
            \o <<"    name: '">> \o a.name \o <<"',\n">>
            \o <<"    description: '">> \o a.description \o <<"',\n">>
            \o <<"})\n">>)

snc_generate_role(a) ==
    LET varName == Or(a.exportName, idKey(Or(LastSegment(a.name), a.name)))
    IN  Respond(
            <<"import { Role } from '@servicenow/sdk/core'\n\n">>
            \o <<"export const ">> \o varName \o <<" = Role({\n">>
            \o <<"    name: '">> \o a.name \o <<"',\n">>
            \o <<"    description: '">> \o a.description \o <<"',\n">>
            \o <<"})\n">>)

\* config[key] of a record(string -> string)
Get(config, key) ==
    IF \E i \in 1..Len(config) : config[i].k = key
    THEN config[CHOOSE i \in 1..Len(config) : config[i].k = key].v
    ELSE Undef

\* the loop body with a switch whose every case writes the log template
FlowActionBlockLogOnly(act, flowId, table) ==
    LET actId == idKey(flowId \o <<"_">> \o Spell(act.type[1]))
    IN  <<"        wfa.action(\n">>
        \o <<"            action.core.log,\n">>
        \o <<"            { $id: Now.ID['">> \o actId \o <<"'] },\n">>
        \o <<"            {\n">>
        \o <<"                log_level: '">>
            \o Or(Get(act.config, <<"level">>), <<"info">>) \o <<"',\n">>
        \o <<"                log_message: '">>
            \o Or(Get(act.config, <<"message">>), <<"Flow executed">>) \o <<"',\n">>
        \o <<"            }\n">>
        \o <<"        )\n\n">>

\* one iteration of the flow emitter's `for (const act of actions)`
FlowActionBlock(act, flowId, table) ==
    LET actId == idKey(flowId \o <<"_">> \o Spell(act.type[1]))
    IN
    CASE act.type = <<"log">> ->
            <<"        wfa.action(\n">>
            \o <<"            action.core.log,\n">>
            \o <<"            { $id: Now.ID['">> \o actId \o <<"'] },\n">>
            \o <<"            {\n">>
            \o <<"                log_level: '">>
                \o Or(Get(act.config, <<"level">>), <<"info">>) \o <<"',\n">>
            \o <<"                log_message: '">>
                \o Or(Get(act.config, <<"message">>), <<"Flow executed">>) \o <<"',\n">>
            \o <<"            }\n">>
            \o <<"        )\n\n">>
      [] act.type = <<"updateRecord">> ->
            <<"        wfa.action(\n">>
            \o <<"            action.core.updateRecord,\n">>
            \o <<"            { $id: Now.ID['">> \o actId \o <<"'] },\n">>
            \o <<"            {\n">>
            \o <<"                table_name: '">>
                \o Or(Get(act.config, <<"table">>), table) \o <<"',\n">>
            \o <<"                // @ts-ignore - sys_id is a system column\n">>
            \o <<"                record: wfa.dataPill(params.trigger.current.sys_id, 'reference'),\n">>
            \o <<"                values: {\n">>
            \o Concat([i \in 1..Len(act.config) |->
                          IF act.config[i].k # <<"table">>
                          THEN <<"                    ">> \o act.config[i].k \o <<": '">>
                                  \o act.config[i].v \o <<"',\n">>
                          ELSE <<>>])
            \o <<"                },\n">>
            \o <<"            }\n">>
            \o <<"        )\n\n">>
      [] act.type = <<"sendEmail">> ->
            <<"        wfa.action(\n">>
            \o <<"            action.core.sendEmail,\n">>
            \o <<"            { $id: Now.ID['">> \o actId \o <<"'] },\n">>
            \o <<"            {\n">>
            \o <<"                table_name: '">> \o table \o <<"',\n">>
            \o <<"                watermark_email: true,\n">>
            \o <<"                ah_subject: '">>
                \o Or(Get(act.config, <<"subject">>), <<"Notification">>) \o <<"',\n">>
            \o <<"                ah_body: '">>
                \o Or(Get(act.config, <<"body">>), <<>>) \o <<"',\n">>
            \o <<"                // @ts-ignore - sys_id is a system column\n">>
            \o <<"                record: wfa.dataPill(params.trigger.current.sys_id, 'reference'),\n">>
            \o <<"                ah_to: '">> \o Or(Get(act.config, <<"to">>), <<>>) \o <<"',\n">>
            \o <<"            }\n">>
            \o <<"        )\n\n">>
      [] act.type = <<"lookUpRecord">> ->
            <<"        const ">> \o actId \o <<"_result = wfa.action(\n">>
            \o <<"            action.core.lookUpRecord,\n">>
            \o <<"            { $id: Now.ID['">> \o actId \o <<"'] },\n">>
            \o <<"            {\n">>
            \o <<"                table: '">>
                \o Or(Get(act.config, <<"table">>), <<"sys_user">>) \o <<"',\n">>
            \o <<"                conditions: '">>
                \o Or(Get(act.config, <<"conditions">>), <<>>) \o <<"',\n">>
            \o <<"                sort_type: 'sort_asc',\n">>
            \o <<"                if_multiple_records_are_found_action: 'use_first_record',\n">>
            \o <<"            }\n">>
            \o <<"        )\n\n">>
      [] OTHER -> <<>>

snc_generate_flow(a) ==
    LET flowId == idKey(a.name)
    IN  Respond(
            <<"import { action, Flow, wfa, trigger } from '@servicenow/sdk/automation'\n\n">>
            \o <<"export const ">> \o flowId \o <<" = Flow(\n">>
            \o <<"    {\n">>
            \o <<"        $id: Now.ID['">> \o flowId \o <<"'],\n">>
            \o <<"        name: '">> \o a.name \o <<"',\n">>
            \o <<"        description: '">> \o a.description \o <<"',\n">>
            \o <<"    },\n">>
            \o <<"    wfa.trigger(\n">>
            \o <<"        trigger.record.">> \o a.triggerType \o <<",\n">>
            \o <<"        { $id: Now.ID['">> \o flowId \o <<"_trigger'] },\n">>
            \o <<"        {\n">>
            \o <<"            table: '">> \o a.table \o <<"',\n">>
            \o (IF Truthy(a.condition)
                THEN <<"            condition: '">> \o a.condition \o <<"',\n">>
                ELSE <<>>)
            \o <<"            run_flow_in: 'background',\n">>
            \o <<"            run_on_extended: 'false',\n">>
            \o <<"            run_when_setting: 'both',\n">>
            \o <<"            run_when_user_setting: 'any',\n">>
            \o <<"            run_when_user_list: [],\n">>
            \o <<"        }\n">>
            \o <<"    ),\n">>
            \o <<"    (params) => {\n">>
            \o Concat([i \in 1..Len(a.actions) |->
                          FlowActionBlock(a.actions[i], flowId, a.table)])
            \o <<"    }\n">>
            \o <<")\n">>)

snc_generate_business_rule(a) ==
    LET ruleId == idKey(a.name)
        fnName == Or(a.scriptFunctionName, ruleId \o <<"Script">>)
        actionStr == Join([i \in 1..Len(a.actions) |-> <<"'">> \o a.actions[i] \o <<"'">>],
                          <<", ">>)
    IN  Respond(
            <<"import { BusinessRule } from '@servicenow/sdk/core'\n">>
            \o <<"import { GlideRecord, gs } from '@servicenow/glide'\n\n">>
            \o <<"function ">> \o fnName \o <<"(current: GlideRecord): void {\n">>
            \o <<"    ">> \o a.scriptBody \o <<"\n">>
            \o <<"}\n\n">>
            \o <<"BusinessRule({\n">>
            \o <<"    $id: Now.ID['">> \o ruleId \o <<"'],\n">>
            \o <<"    name: '">> \o a.name \o <<"',\n">>
            \o <<"    table: '">> \o a.table \o <<"',\n">>
            \o <<"    when: '">> \o a.when \o <<"',\n">>
            \o <<"    action: [">> \o actionStr \o <<"],\n">>
            \o <<"    active: true,\n">>
            \o (IF Truthy(a.condition)
                THEN <<"    filter_condition: '">> \o a.condition \o <<"',\n">>
                ELSE <<>>)
            \o <<"    script: ">> \o fnName \o <<",\n">>
            \o <<"    abort_action: false,\n">>
            \o <<"})\n">>)

\* one iteration of the ACL emitter's `for (const op of operations)`
AclBlock(op, table, roleName) ==
    LET aclId == idKey(table \o <<"_">> \o Spell(op[1]))
    IN  <<"Acl({\n">>
        \o <<"    $id: Now.ID['">> \o aclId \o <<"'],\n">>
        \o <<"    active: true,\n">>
        \o <<"    type: 'record',\n">>
        \o <<"    operation: '">> \o op \o <<"',\n">>
        \o (IF Truthy(roleName) THEN <<"    roles: [">> \o roleName \o <<"],\n">> ELSE <<>>)
        \o <<"    table: '">> \o table \o <<"',\n">>
        \o <<"})\n\n">>

\* the ACL emitter with the import line written for every role name, with or
\* without a path
snc_generate_aclImportByName(a) ==
    Respond(
        <<"import { Acl } from '@servicenow/sdk/core'\n">>
        \o (IF Truthy(a.roleName)
            THEN <<"import { ">> \o a.roleName \o <<" } from '">> \o a.roleImportPath
                    \o <<"'\n">>
            ELSE <<>>)
        \o <<"\n">>
        \o Concat([i \in 1..Len(a.operations) |->
                      AclBlock(a.operations[i], a.table, a.roleName)]))

snc_generate_acl(a) ==
    Respond(
        <<"import { Acl } from '@servicenow/sdk/core'\n">>
        \o (IF Truthy(a.roleName) /\ Truthy(a.roleImportPath)
            THEN <<"import { ">> \o a.roleName \o <<" } from '">> \o a.roleImportPath
                    \o <<"'\n">>
            ELSE <<>>)
        \o <<"\n">>
        \o Concat([i \in 1..Len(a.operations) |->
                      AclBlock(a.operations[i], a.table, a.roleName)]))

\* one iteration of the menu emitter's `for (const mod of modules)`
ModuleBlock(mod, menuId) ==
    LET modId == idKey(menuId \o <<"_">> \o mod.title)
    IN  <<"Record({\n">>
        \o <<"    table: 'sys_app_module',\n">>
        \o <<"    $id: Now.ID['">> \o modId \o <<"'],\n">>
        \o <<"    data: {\n">>
        \o <<"        title: '">> \o mod.title \o <<"',\n">>
        \o <<"        active: true,\n">>
        \o <<"        application: ">> \o menuId \o <<".$id,\n">>
        \o <<"        link_type: '">> \o mod.linkType \o <<"',\n">>
        \o <<"        name: '">> \o mod.table \o <<"',\n">>
        \o <<"        order: ">> \o mod.order \o <<",\n">>
        \o <<"        override_menu_roles: false,\n">>
        \o <<"        require_confirmation: false,\n">>
        \o <<"        uncancelable: false,\n">>
        \o <<"    },\n">>
        \o <<"})\n\n">>

snc_generate_app_menu(a) ==
    LET menuId == idKey(a.title)
    IN  Respond(
            <<"import { ApplicationMenu, Record } from '@servicenow/sdk/core'\n">>
            \o (IF Truthy(a.roleName) /\ Truthy(a.roleImportPath)
                THEN <<"import { ">> \o a.roleName \o <<" } from '">> \o a.roleImportPath
                        \o <<"'\n">>
                ELSE <<>>)
            \o <<"\n">>
            \o <<"export const ">> \o menuId \o <<" = ApplicationMenu({\n">>
            \o <<"    $id: Now.ID['">> \o menuId \o <<"'],\n">>
            \o <<"    title: '">> \o a.title \o <<"',\n">>
            \o <<"    description: '">> \o a.description \o <<"',\n">>
            \o <<"    active: true,\n">>
            \o (IF Truthy(a.roleName) THEN <<"    roles: [">> \o a.roleName \o <<"],\n">>
                                      ELSE <<>>)
            \o <<"})\n\n">>
            \o Concat([i \in 1..Len(a.modules) |-> ModuleBlock(a.modules[i], menuId)]))

\* one iteration of the workspace emitter's `for (const tbl of tables)`
WorkspaceTableBlock(tbl, wsId) ==
    LET tblId  == idKey(Spell("ws_") \o tbl.tableName)
        viewId == idKey(tbl.tableName \o Spell("_view"))
        listId == idKey(tbl.tableName \o Spell("_list"))
        cols   == Join([i \in 1..Len(tbl.listColumns) |->
                          <<"        { element: '">> \o tbl.listColumns[i]
                             \o <<"', position: ", ToString(i - 1), " }">>],
                       <<",\n">>)
    IN  <<"Record({\n">>
        \o <<"    table: 'sys_aw_table',\n">>
        \o <<"    $id: Now.ID['">> \o tblId \o <<"'],\n">>
        \o <<"    data: {\n">>
        \o <<"        master_config: Now.ID['">> \o wsId \o <<"'],\n">>
        \o <<"        table: '">> \o tbl.tableName \o <<"',\n">>
        \o <<"        active: true,\n">>
        \o <<"        primary: ">> \o tbl.primary \o <<",\n">>
        \o <<"    },\n">>
        \o <<"})\n\n">>
        \o <<"const ">> \o viewId \o <<" = Record({\n">>
        \o <<"    table: 'sys_ui_view',\n">>
        \o <<"    $id: Now.ID['">> \o viewId \o <<"'],\n">>
        \o <<"    data: {\n">>
        \o <<"        name: '">> \o viewId \o <<"',\n">>
        \o <<"        title: '">> \o tbl.tableName \o <<" Workspace View',\n">>
        \o <<"    },\n">>
        \o <<"})\n\n">>
        \o <<"List({\n">>
        \o <<"    $id: Now.ID['">> \o listId \o <<"'],\n">>
        \o <<"    table: '">> \o tbl.tableName \o <<"',\n">>
        \o <<"    view: ">> \o viewId \o <<",\n">>
        \o <<"    columns: [\n">> \o cols \o <<",\n    ],\n">>
        \o <<"})\n\n">>

snc_generate_workspace(a) ==
    LET wsId == idKey(a.title)
    IN  Respond(
            <<"import { Record, List } from '@servicenow/sdk/core'\n\n">>
            \o <<"Record({\n">>
            \o <<"    table: 'sys_aw_master_config',\n">>
            \o <<"    $id: Now.ID['">> \o wsId \o <<"'],\n">>
            \o <<"    data: {\n">>
            \o <<"        title: '">> \o a.title \o <<"',\n">>
            \o <<"        description: '">> \o a.description \o <<"',\n">>
            \o <<"        url_path: '">> \o a.urlPath \o <<"',\n">>
            \o <<"        active: true,\n">>
            \o <<"    },\n">>
            \o <<"})\n\n">>
            \o Concat([i \in 1..Len(a.tables) |-> WorkspaceTableBlock(a.tables[i], wsId)]))

GenTools ==
    {"snc_generate_table", "snc_generate_flow", "snc_generate_business_rule",
     "snc_generate_acl", "snc_generate_role", "snc_generate_app_menu",
     "snc_generate_workspace"}

\* registerCodeGeneratorTools: the handler registered under each name
GenHandler(tool, a) ==
    CASE tool = "snc_generate_table"         -> snc_generate_table(a)
      [] tool = "snc_generate_flow"          -> snc_generate_flow(a)
      [] tool = "snc_generate_business_rule" -> snc_generate_business_rule(a)
      [] tool = "snc_generate_acl"           -> snc_generate_acl(a)
      [] tool = "snc_generate_role"          -> snc_generate_role(a)
      [] tool = "snc_generate_app_menu"      -> snc_generate_app_menu(a)
      [] tool = "snc_generate_workspace"     -> snc_generate_workspace(a)

-----------------------------------------------------------------------------
(* Schema Validator: the shapes of the generator tools *)

\* an absent array
NoList == << Undef >>

\* a value of the wrong primitive type where a number or boolean is declared
NotANumber == <<"<string>">>

OptString(v) == v # NotAString
OptBoolean(v) == v \in {Undef, <<"true">>, <<"false">>}
IsNumber(v) == v # <<>> /\ \A i \in 1..Len(v) : v[i] \in Digit

TriggerTypes == {<<"created">>, <<"updated">>, <<"createdOrUpdated">>}
ActionTypes == {<<"log">>, <<"updateRecord">>, <<"sendEmail">>, <<"lookUpRecord">>}
WhenValues == {<<"before">>, <<"after">>, <<"async">>, <<"display">>}
RuleActions == {<<"insert">>, <<"update">>, <<"delete">>, <<"query">>}
AclOperations == {<<"create">>, <<"read">>, <<"write">>, <<"delete">>}
LinkTypes == {<<"LIST">>, <<"NEW">>}

\* the default written in alphabetical order
AllOperationsSorted == << <<"create">>, <<"delete">>, <<"read">>, <<"write">> >>

\* .default(["create", "read", "write", "delete"])
AllOperations == << <<"create">>, <<"read">>, <<"write">>, <<"delete">> >>

\* the fields of one element that fail the ColumnSpec shape
ColumnFailing(col) ==
    {f \in {"name", "label"} : ~IsString(col[f])}
    \cup {f \in {"type"} : col[f] \notin ColumnTypes}
    \cup {f \in {"mandatory"} : ~OptBoolean(col[f])}
    \cup {f \in {"maxLength"} : col[f] # Undef /\ ~IsNumber(col[f])}
    \cup {f \in {"referenceTable", "defaultValue"} : ~OptString(col[f])}
    \cup {f \in {"choices"} :
             col[f] # NoMap /\ \E i \in 1..Len(col[f]) : ~IsString(col[f][i].v)}

\* the failing fields of every element of an array, by the element validator
ElementsFailing(xs, ElemFailing(_)) == UNION {ElemFailing(xs[i]) : i \in 1..Len(xs)}

FlowActionFailing(act) ==
    {f \in {"type"} : act[f] \notin ActionTypes}
    \cup {f \in {"config"} : act[f] = NoMap}

RuleActionFailing(x) == IF x \in RuleActions THEN {} ELSE {"actions"}

OperationFailing(x) == IF x \in AclOperations THEN {} ELSE {"operations"}

ModuleFailing(mod) ==
    {f \in {"title", "table"} : ~IsString(mod[f])}
    \cup {f \in {"linkType"} : mod[f] # Undef /\ mod[f] \notin LinkTypes}
    \cup {f \in {"order"} : ~IsNumber(mod[f])}

ListColumnFailing(x) == IF IsString(x) THEN {} ELSE {"listColumns"}

WorkspaceTableFailing(tbl) ==
    {f \in {"tableName"} : ~IsString(tbl[f])}
    \cup {f \in {"primary"} : ~OptBoolean(tbl[f])}
    \cup ElementsFailing(tbl.listColumns, ListColumnFailing)

\* the fields of a raw payload that fail the generator tool's shape
GenFailing(tool, raw) ==
    CASE tool = "snc_generate_table" ->
            {f \in {"tableName", "label"} : ~IsString(raw[f])}
            \cup {f \in {"displayColumn"} : ~OptString(raw[f])}
            \cup ElementsFailing(raw.columns, ColumnFailing)
      [] tool = "snc_generate_flow" ->
            {f \in {"name", "description", "table"} : ~IsString(raw[f])}
            \cup {f \in {"triggerType"} : raw[f] \notin TriggerTypes}
            \cup {f \in {"condition"} : ~OptString(raw[f])}
            \cup ElementsFailing(raw.actions, FlowActionFailing)
      [] tool = "snc_generate_business_rule" ->
            {f \in {"name", "table", "scriptBody"} : ~IsString(raw[f])}
            \cup {f \in {"when"} : raw[f] \notin WhenValues}
            \cup {f \in {"condition", "scriptFunctionName"} : ~OptString(raw[f])}
            \cup ElementsFailing(raw.actions, RuleActionFailing)
      [] tool = "snc_generate_acl" ->
            {f \in {"table"} : ~IsString(raw[f])}
            \cup {f \in {"roleName", "roleImportPath"} : ~OptString(raw[f])}
            \cup (IF raw.operations = NoList THEN {}
                  ELSE ElementsFailing(raw.operations, OperationFailing))
      [] tool = "snc_generate_role" ->
            {f \in {"name", "description"} : ~IsString(raw[f])}
            \cup {f \in {"exportName"} : ~OptString(raw[f])}
      [] tool = "snc_generate_app_menu" ->
            {f \in {"title", "description"} : ~IsString(raw[f])}
            \cup {f \in {"roleName", "roleImportPath"} : ~OptString(raw[f])}
            \cup ElementsFailing(raw.modules, ModuleFailing)
      [] tool = "snc_generate_workspace" ->
            {f \in {"title", "urlPath", "description"} : ~IsString(raw[f])}
            \cup ElementsFailing(raw.tables, WorkspaceTableFailing)

\* the validated object: defaults filled in
GenParsed(tool, raw) ==
    CASE tool = "snc_generate_acl" ->
            [raw EXCEPT !.operations = IF @ = NoList THEN AllOperations ELSE @]
      [] tool = "snc_generate_app_menu" ->
            [raw EXCEPT !.modules =
                [i \in 1..Len(@) |->
                    [@[i] EXCEPT !.linkType = IF @ = Undef THEN <<"LIST">> ELSE @]]]
      [] tool = "snc_generate_workspace" ->
            [raw EXCEPT !.tables =
                [i \in 1..Len(@) |->
                    [@[i] EXCEPT !.primary = IF @ = Undef THEN <<"false">> ELSE @]]]
      [] OTHER -> raw

-----------------------------------------------------------------------------
(* Inputs *)

sInst  == <<"d", "1">>
sAlias == <<"m", "e">>
sEnv   == <<"q", "a">>
sDir   == <<"/", "p">>
sApp   == <<"A", " ", "b">>
sScope == <<"x", "_", "a">>

\* the raw payloads a caller sends to each CLI-wrapper tool
SdkPayloads(mode, tool) ==
    LET many == (mode = "single")
        Auths == IF many THEN {Undef, <<>>, sAlias} ELSE {Undef, sAlias}
        Dirs  == IF many THEN {Undef, sDir} ELSE {Undef}
    IN
    CASE tool = "snc_auth_list" -> {<<>>}
      [] tool = "snc_auth_add" ->
            [instance : IF many THEN {Undef, sInst} ELSE {sInst},
             alias    : IF many THEN {Undef, <<>>, sAlias} ELSE {sAlias},
             type     : IF many THEN {Undef, <<"oauth">>, <<"k">>} ELSE {Undef}]
      [] tool = "snc_auth_use" ->
            [alias : IF many THEN {sAlias, Undef, NotAString} ELSE {sAlias}]
      [] tool = "snc_init" ->
            [appName     : IF many THEN {sApp, Undef} ELSE {sApp},
             scopeName   : {sScope},
             template    : IF many THEN {Undef, <<"base">>, <<"k">>} ELSE {Undef, <<"k">>},
             packageName : IF many THEN {Undef, <<"p">>} ELSE {Undef},
             auth        : IF many THEN Auths ELSE {Undef},
             directory   : Dirs]
      [] tool = "snc_build" -> [directory : IF many THEN {Undef, sDir} ELSE {sDir}]
      [] tool = "snc_install" -> [directory : Dirs, auth : Auths]
      [] tool = "snc_dependencies" ->
            [directory : Dirs, auth : IF many THEN Auths ELSE {Undef}]
      [] tool = "snc_transform" ->
            [from : IF many THEN {Undef, <<"i">>} ELSE {Undef},
             directory : Dirs, auth : IF many THEN Auths ELSE {Undef}]
      [] tool = "snc_clean" -> [directory : Dirs]

\* what the subprocess wrote before it ended
RECURSIVE SeqsUpTo(_, _)
SeqsUpTo(S, n) ==
    IF n = 0 THEN {<<>>}
    ELSE LET shorter == SeqsUpTo(S, n - 1)
         IN  shorter \cup {Append(s, x) : s \in shorter, x \in S}

\* longest stream a subprocess writes
MaxOut == 2

\* longest list of flow actions drawn over every mix of the four types
MaxActions == 2

\* largest choices mapping of a column
MaxChoices == 2

Streams(mode) ==
    IF mode = "single" THEN SeqsUpTo({"o", "\n"}, MaxOut) ELSE {<<"o", "\n">>}

\* the message of the Error child_process.exec rejects with
ExecErrorMessage(kind, command, stderr) ==
    IF kind = "spawn"
    THEN <<"spawn /bin/sh ENOENT">>
    ELSE <<"Command failed: ">> \o command \o <<"\n">> \o stderr

\* the promise resolves: exit code 0
OkOutcomes(mode) ==
    [kind : {"ok"}, stdout : Streams(mode), stderr : Streams(mode),
     message : {<<>>}, isErrorObject : {FALSE}]

\* the promise rejects: non-zero exit, timeout (killed), spawn failure
FailOutcomes(mode, command) ==
    {[kind |-> k, stdout |-> so, stderr |-> se,
      message |-> ExecErrorMessage(k, command, se), isErrorObject |-> TRUE] :
        k \in {"exit", "timeout"}, so \in {<<>>}, se \in Streams(mode)}
    \cup
    {[kind |-> "spawn", stdout |-> <<>>, stderr |-> <<>>,
      message |-> ExecErrorMessage("spawn", command, <<>>), isErrorObject |-> TRUE]}

sTable == <<"x", "_", "t">>
sLabel == <<"M", "y", " ", "T">>
sRole  == <<"x", ".", "R", "o">>

Column(name, type, mandatory, maxLength, referenceTable, choices, defaultValue) ==
    [name |-> name, type |-> type, label |-> sLabel, mandatory |-> mandatory,
     maxLength |-> maxLength, referenceTable |-> referenceTable, choices |-> choices,
     defaultValue |-> defaultValue]

colString == Column(<<"n">>, <<"string">>, <<"true">>, <<"4", "0">>, Undef, NoMap, <<>>)
colRef    == Column(<<"r">>, <<"reference">>, Undef, Undef, <<"u">>, NoMap, Undef)
colChoice == Column(<<"s">>, <<"choice">>, <<"false">>, <<"0">>, Undef,
                    << [k |-> <<"open">>, v |-> <<"O">>], [k |-> <<"closed">>, v |-> <<"C">>] >>,
                    Undef)
colFalsy == Column(<<"f">>, <<"string">>, <<"false">>, <<"0">>, Undef, NoMap, <<>>)

\* columns of the date, date-time, decimal and boolean types
colDate     == Column(<<"d">>, <<"date">>, <<"true">>, Undef, Undef, NoMap, Undef)
colDateTime == Column(<<"t">>, <<"datetime">>, Undef, Undef, Undef, NoMap, Undef)
colDecimal  == Column(<<"p">>, <<"decimal">>, Undef, Undef, Undef, NoMap, <<"0">>)
colBool     == Column(<<"f">>, <<"boolean">>, Undef, Undef, Undef, NoMap, Undef)

colInt   == Column(<<"i">>, <<"integer">>, Undef, <<"5">>, Undef, NoMap, Undef)
colStray == Column(<<"q">>, <<"string">>, Undef, Undef, <<"u">>,
                   << [k |-> <<"a">>, v |-> <<"A">>] >>, Undef)

colRefDefault == Column(<<"o">>, <<"reference">>, <<"true">>, <<"8">>, <<"u">>, NoMap,
                        <<"v">>)

\* choice columns over every mapping of up to MaxChoices entries
ChoiceEntry == {[k |-> <<"a">>, v |-> <<"A">>], [k |-> <<"b">>, v |-> <<>>],
                [k |-> <<"z", "1">>, v |-> <<"Z", " ", "1">>]}

ChoiceMaps ==
    {m \in SeqsUpTo(ChoiceEntry, MaxChoices) :
        \A i, j \in 1..Len(m) : m[i].k = m[j].k => i = j}

colChoiceOf(m) == Column(<<"c">>, <<"choice">>, Undef, Undef, Undef, m, Undef)

colBad    == Column(<<"b">>, <<"text">>, Undef, Undef, Undef, NoMap, Undef)

actLog    == [type |-> <<"log">>, config |-> << [k |-> <<"message">>, v |-> <<"m">>] >>]
actUpdate == [type |-> <<"updateRecord">>,
              config |-> << [k |-> <<"state">>, v |-> <<"2">>],
                            [k |-> <<"table">>, v |-> sTable] >>]
actEmail  == [type |-> <<"sendEmail">>, config |-> <<>>]
actLookup == [type |-> <<"lookUpRecord">>, config |-> <<>>]
actBad    == [type |-> <<"log">>, config |-> NoMap]

\* a log action with a level and no message, and one whose two keys hold the
\* empty string
actLogLevel == [type |-> <<"log">>, config |-> << [k |-> <<"level">>, v |-> <<"w">>] >>]
actLogEmpty == [type |-> <<"log">>,
                config |-> << [k |-> <<"level">>, v |-> <<>>],
                              [k |-> <<"message">>, v |-> <<>>] >>]

\* an update with several field keys around the table key, an update of the
\* trigger table, and an e-mail and a look-up with values of their own
actUpdateMany == [type |-> <<"updateRecord">>,
                  config |-> << [k |-> <<"z">>, v |-> <<"1">>],
                                [k |-> <<"table">>, v |-> <<>>],
                                [k |-> <<"a">>, v |-> <<>>] >>]
actEmailTo    == [type |-> <<"sendEmail">>,
                  config |-> << [k |-> <<"to">>, v |-> <<"u">>],
                                [k |-> <<"subject">>, v |-> <<>>] >>]
actLookupOf   == [type |-> <<"lookUpRecord">>,
                  config |-> << [k |-> <<"table">>, v |-> <<"y">>],
                                [k |-> <<"conditions">>, v |-> <<"q">>] >>]

\* the raw payloads a caller sends to each generator tool
GenPayloads(mode, tool) ==
    LET many == (mode = "single")
    IN
    CASE tool = "snc_generate_table" ->
            [tableName : IF many THEN {sTable, <<"x", ".", "t">>, <<"X", "-", "t">>, Undef}
                                 ELSE {sTable},
             label : {sLabel},
             columns : IF many
                       THEN {<<>>, <<colString>>, <<colRef, colChoice>>, <<colString, colBad>>}
                            \cup {<<colRefDefault>>, <<colChoice, colRefDefault, colString>>,
                                  <<colChoice, colFalsy>>, <<colInt>>, <<colStray>>,
                                  <<colString, colInt, colString>>,
                                  <<colDateTime, colDate, colDecimal, colBool,
                                    colDateTime>>}
                            \cup {<<colChoiceOf(m)>> : m \in ChoiceMaps}
                       ELSE {<<colChoice>>, <<colBad>>},
             displayColumn : IF many THEN {Undef, <<>>, <<"n">>} ELSE {Undef}]
      [] tool = "snc_generate_flow" ->
            [name : {sApp}, description : {<<"d">>},
             triggerType : IF many THEN {<<"created">>, Undef} ELSE {<<"created">>},
             table : {sTable},
             condition : IF many THEN {Undef, <<>>, <<"p", "=", "1">>} ELSE {Undef},
             actions : IF many
                       THEN {<<>>, <<actLog, actUpdate>>, <<actEmail, actLookup, actLog>>,
                             <<actBad>>, <<actLogLevel, actLogEmpty>>,
                             <<actUpdateMany, actEmailTo>>, <<actLookupOf>>}
                            \cup SeqsUpTo({actLog, actUpdate, actEmail, actLookup},
                                           MaxActions)
                       ELSE {<<actLog>>}]
      [] tool = "snc_generate_business_rule" ->
            [name : {sApp}, table : {sTable},
             when : IF many THEN {<<"before">>, <<"never">>} ELSE {<<"before">>},
             actions : IF many THEN {<<>>, << <<"insert">>, <<"update">> >>, << <<"drop">> >>}
                               ELSE {<< <<"insert">> >>},
             condition : IF many THEN {Undef, <<>>, <<"s", "=", "2">>} ELSE {Undef},
             scriptBody : {<<"g", "s">>},
             scriptFunctionName : IF many THEN {Undef, <<"f">>} ELSE {Undef}]
      [] tool = "snc_generate_acl" ->
            [table : IF many THEN {sTable, NotAString} ELSE {sTable},
             operations : IF many
                          THEN {NoList, <<>>, << <<"write">>, <<"read">> >>, << <<"drop">> >>,
                                << <<"read">>, <<"delete">>, <<"read">> >>}
                          ELSE {NoList},
             roleName : IF many THEN {Undef, <<>>, <<"r">>} ELSE {Undef},
             roleImportPath : IF many THEN {Undef, <<>>, <<".", "/", "r">>} ELSE {Undef}]
      [] tool = "snc_generate_role" ->
            [name : IF many
                    THEN {sRole, <<"r", ".">>, <<"A", "-", "b">>, <<"x", ".", "y", ".", "Z">>,
                          Undef}
                    ELSE {sRole, Undef},
             description : IF many THEN {<<"d">>, <<"M", " ", "a">>} ELSE {<<"d">>},
             exportName : IF many THEN {Undef, <<>>, <<"e">>, <<"m", "R">>} ELSE {Undef}]
      [] tool = "snc_generate_app_menu" ->
            [title : {sApp}, description : {<<"d">>},
             modules : IF many
                       THEN {<<>>,
                             << [title |-> <<"L">>, table |-> sTable, linkType |-> Undef,
                                 order |-> <<"1", "0">>],
                                [title |-> <<"N">>, table |-> sTable, linkType |-> <<"NEW">>,
                                 order |-> <<"2", "0">>] >>,
                             << [title |-> <<"L">>, table |-> sTable, linkType |-> Undef,
                                 order |-> NotANumber] >>,
                             << [title |-> <<"L">>, table |-> sTable, linkType |-> Undef,
                                 order |-> <<"1">>],
                                [title |-> <<"l">>, table |-> <<"y">>, linkType |-> Undef,
                                 order |-> <<"2">>] >>}
                       ELSE {<< [title |-> <<"L">>, table |-> sTable, linkType |-> Undef,
                                 order |-> <<"1", "0">>] >>},
             roleName : IF many THEN {Undef, <<"r">>} ELSE {Undef},
             roleImportPath : IF many THEN {Undef, <<".", "/", "r">>} ELSE {Undef}]
      [] tool = "snc_generate_workspace" ->
            [title : {sApp}, urlPath : {<<"w">>}, description : {<<"d">>},
             tables : IF many
                      THEN {<<>>,
                            << [tableName |-> <<"y">>, primary |-> <<"false">>,
                                listColumns |-> << <<"s">>, <<"n">>, <<"s">> >>],
                               [tableName |-> sTable, primary |-> Undef,
                                listColumns |-> << <<"n">> >>] >>,
                            << [tableName |-> sTable, primary |-> Undef,
                                listColumns |-> << <<"n">>, <<"s">> >>],
                               [tableName |-> <<"y">>, primary |-> <<"true">>,
                                listColumns |-> <<>>] >>,
                            << [tableName |-> sTable, primary |-> NotANumber,
                                listColumns |-> <<>>] >>,
                            << [tableName |-> sTable, primary |-> <<"true">>,
                                listColumns |-> << <<"n">> >>],
                               [tableName |-> <<"x", ".", "t">>, primary |-> Undef,
                                listColumns |-> << <<"s">> >>] >>}
                      ELSE {<< [tableName |-> sTable, primary |-> Undef,
                                listColumns |-> << <<"n">> >>] >>}]

-----------------------------------------------------------------------------
(* The server: one record per tool call *)

Tools == SdkTools \cup GenTools

Payloads(mode, tool) ==
    IF tool \in SdkTools THEN SdkPayloads(mode, tool) ELSE GenPayloads(mode, tool)

\* the tools called: all of them by a single caller; the generator tools by
\* a caller that repeats requests; with calls in flight together, the tools
\* that set and read an alias, set a working directory, answer without a
\* subprocess, and emit
ToolsIn(mode) ==
    IF mode = "single" THEN Tools
    ELSE IF mode = "emit" THEN GenTools
    ELSE {"snc_auth_use", "snc_init", "snc_build", "snc_install", "snc_auth_add",
          "snc_generate_role"}

\* every tool registered with the empty shape {}
FailingNothing(tool, raw) == {}

\* the shape check server.tool applies before it calls the handler
Failing(tool, raw) ==
    IF tool \in SdkTools THEN SdkFailing(tool, raw) ELSE GenFailing(tool, raw)

Parsed(tool, raw) ==
    IF tool \in SdkTools THEN SdkParsed(tool, raw) ELSE GenParsed(tool, raw)

Handler(tool, a, defaultAuth) ==
    IF tool \in SdkTools THEN SdkHandler(tool, a, defaultAuth) ELSE GenHandler(tool, a)

\* the rejection the protocol layer answers with when the payload fails the shape
ValidationFailure(tool, failing) ==
    [text |-> <<"Invalid arguments for tool ", tool>>, isError |-> TRUE, blocks |-> 1]

IdleCall ==
    [pc |-> "idle", tool |-> "", raw |-> <<>>, args |-> <<>>, invalid |-> {},
     spawns |-> 0, proc |-> NoProc, outcome |-> NoOutcome, resp |-> NoResp]

\* a handler that numbers its document by the calls answered before it
AfterRespondNumbered(call, a, h) ==
    [call EXCEPT !.pc = "done", !.args = a,
                 !.resp = [text |-> h.text \o <<"// ",
                                      ToString(Cardinality({d \in DOMAIN calls :
                                                               calls[d].pc = "done"}))>>,
                           isError |-> FALSE, blocks |-> 1]]

\* the call after its handler answered without suspending
AfterRespond(call, a, h) ==
    [call EXCEPT !.pc = "done", !.args = a,
                 !.resp = [text |-> h.text, isError |-> FALSE, blocks |-> 1]]

\* the call suspended in `await execAsync(...)`
AfterSpawn(call, a, h) ==
    [call EXCEPT !.pc = "waiting", !.args = a, !.spawns = @ + 1,
                 !.proc = ExecOptions(h.command, h.cwd)]

\* the call after runSdk's try branch returned
AfterResolve(call, out) ==
    [call EXCEPT !.pc = "done", !.outcome = out, !.resp = runSdkResolve(out)]

\* runSdk spawning the command again when it failed
AfterRejectRetry(call, error) ==
    [call EXCEPT !.outcome = error, !.spawns = @ + 1]

\* the call after runSdk's catch branch returned
AfterReject(call, error) ==
    [call EXCEPT !.pc = "done", !.outcome = error, !.resp = runSdkCatch(error)]

\* snc_auth_use also recording its alias as the process-wide default
DefaultAuthAssignedByUse(tool, a, defaultAuth) ==
    IF tool = "snc_auth_use" THEN a.alias ELSE defaultAuth

\* the module-level default alias once a handler has run: a const, which no
\* handler assigns
DefaultAuthAfter(tool, a, defaultAuth) == defaultAuth

\* a tools/call request arrives
Receive(c, mode) ==
    /\ calls[c].pc = "idle"
    /\ \E tool \in ToolsIn(mode) : \E raw \in Payloads(mode, tool) :
          calls' = [calls EXCEPT ![c] = [@ EXCEPT !.pc = "received",
                                                  !.tool = tool, !.raw = raw]]
    /\ UNCHANGED <<envAlias, DEFAULT_AUTH, norm>>

\* the payload fails the declared shape: the handler is not called
Reject(c) ==
    /\ calls[c].pc = "received"
    /\ Failing(calls[c].tool, calls[c].raw) # {}
    /\ LET bad == Failing(calls[c].tool, calls[c].raw)
       IN  calls' = [calls EXCEPT ![c] =
                        [@ EXCEPT !.pc = "rejected", !.invalid = bad,
                                  !.resp = ValidationFailure(calls[c].tool, bad)]]
    /\ UNCHANGED <<envAlias, DEFAULT_AUTH, norm>>

\* the handler runs and answers at once
HandleRespond(c) ==
    /\ calls[c].pc = "received"
    /\ Failing(calls[c].tool, calls[c].raw) = {}
    /\ LET a == Parsed(calls[c].tool, calls[c].raw)
           h == Handler(calls[c].tool, a, DEFAULT_AUTH)
       IN  /\ h.kind = "respond"
           /\ calls' = [calls EXCEPT ![c] = AfterRespond(@, a, h)]
           /\ DEFAULT_AUTH' = DefaultAuthAfter(calls[c].tool, a, DEFAULT_AUTH)
    /\ UNCHANGED <<envAlias, norm>>

\* the handler runs up to runSdk's await: the subprocess is spawned
HandleSpawn(c) ==
    /\ calls[c].pc = "received"
    /\ Failing(calls[c].tool, calls[c].raw) = {}
    /\ LET a == Parsed(calls[c].tool, calls[c].raw)
           h == Handler(calls[c].tool, a, DEFAULT_AUTH)
       IN  /\ h.kind = "spawn"
           /\ calls' = [calls EXCEPT ![c] = AfterSpawn(@, a, h)]
           /\ DEFAULT_AUTH' = DefaultAuthAfter(calls[c].tool, a, DEFAULT_AUTH)
    /\ UNCHANGED <<envAlias, norm>>

\* the subprocess exits with code 0
ExecResolve(c, mode) ==
    /\ calls[c].pc = "waiting"
    /\ \E out \in OkOutcomes(mode) :
          calls' = [calls EXCEPT ![c] = AfterResolve(@, out)]
    /\ UNCHANGED <<envAlias, DEFAULT_AUTH, norm>>

\* the subprocess fails: non-zero exit, killed at the timeout, or not spawned
ExecReject(c, mode) ==
    /\ calls[c].pc = "waiting"
    /\ \E error \in FailOutcomes(mode, calls[c].proc.command) :
          calls' = [calls EXCEPT ![c] = AfterReject(@, error)]
    /\ UNCHANGED <<envAlias, DEFAULT_AUTH, norm>>

NoNorm == [pc |-> "off", s |-> <<>>, once |-> <<>>, twice |-> <<>>]

EnvValues == {Undef, <<>>, sEnv}

\* several calls in flight together
Call == 1..NumCalls

Init ==
    /\ envAlias \in {Undef, sEnv}
    /\ DEFAULT_AUTH = LoadDefaultAuth(envAlias)
    /\ calls = [c \in Call |-> IdleCall]
    /\ norm = NoNorm

Next ==
    \E c \in Call :
        \/ Receive(c, "server")
        \/ Reject(c)
        \/ HandleRespond(c)
        \/ HandleSpawn(c)
        \/ ExecResolve(c, "server")
        \/ ExecReject(c, "server")

Spec == Init /\ [][Next]_vars

\* one call at a time, with every payload and every subprocess outcome
InitSingle ==
    /\ envAlias \in EnvValues
    /\ DEFAULT_AUTH = LoadDefaultAuth(envAlias)
    /\ calls = [c \in {1} |-> IdleCall]
    /\ norm = NoNorm

NextSingle ==
    \/ Receive(1, "single")
    \/ Reject(1)
    \/ HandleRespond(1)
    \/ HandleSpawn(1)
    \/ ExecResolve(1, "single")
    \/ ExecReject(1, "single")

SpecSingle == InitSingle /\ [][NextSingle]_vars

\* generator requests repeated and mixed with other generator requests, in
\* every order
EmitCall == 1..(NumCalls + 1)

InitEmit ==
    /\ envAlias \in {Undef, sEnv}
    /\ DEFAULT_AUTH = LoadDefaultAuth(envAlias)
    /\ calls = [c \in EmitCall |-> IdleCall]
    /\ norm = NoNorm

NextEmit ==
    \E c \in EmitCall :
        \/ Receive(c, "emit")
        \/ Reject(c)
        \/ HandleRespond(c)

SpecEmit == InitEmit /\ [][NextEmit]_vars

-----------------------------------------------------------------------------
(* The Identifier Normalizer on its own: idKey applied once, then again *)

NormAlphabet == {"a", "A", "Z", "7", "_", " ", "-", ".", "!"}

NormalizeOnce ==
    /\ norm.pc = "input"
    /\ norm' = [norm EXCEPT !.pc = "once", !.once = idKey(norm.s)]
    /\ UNCHANGED <<envAlias, DEFAULT_AUTH, calls>>

NormalizeTwice ==
    /\ norm.pc = "once"
    /\ norm' = [norm EXCEPT !.pc = "twice", !.twice = idKey(norm.once)]
    /\ UNCHANGED <<envAlias, DEFAULT_AUTH, calls>>

InitNorm ==
    /\ envAlias = Undef
    /\ DEFAULT_AUTH = LoadDefaultAuth(envAlias)
    /\ calls = [c \in {1} |-> IdleCall]
    /\ norm \in [pc : {"input"}, s : SeqsUpTo(NormAlphabet, MaxLen),
                  once : {<<>>}, twice : {<<>>}]

NextNorm == NormalizeOnce \/ NormalizeTwice

SpecNorm == InitNorm /\ [][NextNorm]_vars

-----------------------------------------------------------------------------
(* Properties *)

FailKinds == {"exit", "timeout", "spawn"}

\* tokens of the templates that begin a new line
NewlineLed == {"\n", "\n\nThen set as default:\nnpx now-sdk auth --use "}

\* t holds `line` running up to a line break or to the end of t
ContainsLine(t, line) ==
    \E i \in 0..(Len(t) - Len(line)) :
        /\ SubSeq(t, i + 1, i + Len(line)) = line
        /\ \/ i + Len(line) = Len(t)
           \/ t[i + Len(line) + 1] \in NewlineLed

\* t is s without its leading and trailing white space
IsTrimOf(t, s) ==
    \E i \in 0..Len(s) : \E j \in i..Len(s) :
        /\ t = SubSeq(s, i + 1, j)
        /\ \A k \in 1..i : s[k] \in WhiteSpace
        /\ \A k \in (j + 1)..Len(s) : s[k] \in WhiteSpace
        /\ t # <<>> => (t[1] \notin WhiteSpace /\ t[Len(t)] \notin WhiteSpace)

ValidAuthAdd(raw) ==
    /\ raw.instance \notin {Undef, NotAString}
    /\ raw.alias # NotAString
    /\ raw.type \in AuthTypes \cup {Undef}

\* the command line of the README: npx now-sdk auth --add <instance> --type <type> --alias <a>
AuthAddLine(raw, a) ==
    <<"npx now-sdk auth --add ">> \o raw.instance
        \o <<" --type ">> \o (IF raw.type = Undef THEN <<"basic">> ELSE raw.type)
        \o <<" --alias ">> \o a

\* what C1 says of a call of snc_auth_add on a valid payload, for the alias rule `a`
AuthAddNeverSpawns(k, a) ==
    /\ k.spawns = 0
    /\ k.proc = NoProc
    /\ k.pc \in {"received", "done"}
    /\ k.pc = "done" =>
          /\ k.resp.blocks = 1
          /\ ~k.resp.isError
          /\ ContainsLine(k.resp.text, AuthAddLine(k.raw, a))

\* C1 as stated: snc_auth_add never spawns a subprocess and answers with one text
\* block, no error flag, holding the command line with --alias <alias> when an
\* alias is supplied and --alias <instance> otherwise.
C1_AliasWheneverSupplied ==
    \A c \in DOMAIN calls :
        (calls[c].tool = "snc_auth_add" /\ ValidAuthAdd(calls[c].raw)) =>
            AuthAddNeverSpawns(calls[c],
                IF calls[c].raw.alias # Undef THEN calls[c].raw.alias
                                              ELSE calls[c].raw.instance)

\* C1 amended: snc_auth_add never spawns a subprocess and answers with one text
\* block, no error flag, holding the command line with --alias <alias> when a
\* non-empty alias is supplied and --alias <instance> when the alias is absent
\* or the empty string.
C1_AuthAddNeverSpawns ==
    \A c \in DOMAIN calls :
        (calls[c].tool = "snc_auth_add" /\ ValidAuthAdd(calls[c].raw)) =>
            AuthAddNeverSpawns(calls[c],
                IF calls[c].raw.alias \notin {Undef, <<>>} THEN calls[c].raw.alias
                                                           ELSE calls[c].raw.instance)

\* a call of snc_auth_add with the empty alias has been answered
C1_Witness ==
    \E c \in DOMAIN calls :
        /\ calls[c].tool = "snc_auth_add"
        /\ calls[c].pc = "done"
        /\ calls[c].raw.alias = <<>>
        /\ calls[c].raw.type = <<"oauth">>

\* C2: the invoker never retries: no call ever has more than one subprocess
\* spawned for it, a suspended call only moves on to its answer without a new
\* spawn, and an answered call (failed or not) never changes again.
C2_NeverRetries ==
    [][\A c \in DOMAIN calls :
          /\ calls'[c].spawns <= 1
          /\ calls[c].pc \in {"done", "rejected"} => calls'[c] = calls[c]
          /\ (calls[c].pc = "waiting" /\ calls'[c] # calls[c]) =>
                /\ calls'[c].pc = "done"
                /\ calls'[c].spawns = calls[c].spawns
                /\ calls'[c].proc = calls[c].proc]_vars

\* a call whose subprocess failed has been answered after its single spawn,
\* while the other call goes on
C2_Witness ==
    \E c \in DOMAIN calls : \E d \in DOMAIN calls :
        /\ calls[c].pc = "done"
        /\ calls[c].outcome.kind = "exit"
        /\ calls[c].spawns = 1
        /\ calls[d].pc = "done"
        /\ calls[d].outcome.kind = "timeout"

\* C3 as stated: on success the result carries no error flag and its text is the
\* subprocess's standard output, or its standard error exactly when standard
\* output is empty.
C3_TextIsStdoutOrStderr ==
    \A c \in DOMAIN calls :
        (calls[c].pc = "done" /\ calls[c].outcome.kind = "ok") =>
            /\ ~calls[c].resp.isError
            /\ calls[c].resp.text =
                  (IF calls[c].outcome.stdout = <<>> THEN calls[c].outcome.stderr
                                                     ELSE calls[c].outcome.stdout)

\* C3 amended: on success the result carries no error flag and its text is the
\* standard output with leading and trailing white space removed, or the so
\* trimmed standard error when standard output is empty, or the fixed text
\* "Command completed successfully." when both are empty.
C3_SuccessText ==
    \A c \in DOMAIN calls :
        (calls[c].pc = "done" /\ calls[c].outcome.kind = "ok") =>
            /\ ~calls[c].resp.isError
            /\ calls[c].resp.blocks = 1
            /\ IsTrimOf(calls[c].resp.text,
                        IF calls[c].outcome.stdout # <<>> THEN calls[c].outcome.stdout
                        ELSE IF calls[c].outcome.stderr # <<>> THEN calls[c].outcome.stderr
                        ELSE <<"Command completed successfully.">>)

\* a subprocess that wrote a line ending in a newline has succeeded
C3_Witness ==
    \E c \in DOMAIN calls :
        /\ calls[c].pc = "done"
        /\ calls[c].outcome.kind = "ok"
        /\ calls[c].outcome.stdout = <<"o", "\n">>
        /\ calls[c].outcome.stderr = <<"o">>

\* the error text exec captured: the subprocess's standard error, or the
\* rejection's message when it wrote none
CapturedErrorText(error) ==
    IF error.stderr # <<>> THEN error.stderr ELSE error.message

NonTimeoutTexts(command) ==
    {<<"Error: ">> \o CapturedErrorText(e) :
        e \in {x \in FailOutcomes("single", command) : x.kind # "timeout"}}

\* C5: a command that runs past the 120 second timeout is answered, with
\* isError = true and a message that indicates the timeout, that is, one the
\* invoker gives for no failure other than a timeout.
C5_TimeoutIndicated ==
    \A c \in DOMAIN calls :
        calls[c].outcome.kind = "timeout" =>
            /\ calls[c].pc = "done"
            /\ calls[c].resp.isError
            /\ calls[c].resp.text \notin NonTimeoutTexts(calls[c].proc.command)

\* the default alias of the README: the environment variable when it names
\* one, the literal otherwise
ExpectedDefaultAlias ==
    IF envAlias \in {Undef, <<>>} THEN <<"dev252193">> ELSE envAlias

AliasTools == {"snc_init", "snc_install", "snc_dependencies", "snc_transform"}

\* C6: a wrapper tool that accepts a credential alias (snc_init, snc_install,
\* snc_dependencies, snc_transform), called without one, spawns a command line
\* that passes --auth with the default alias.
C6_DefaultAliasUsed ==
    \A c \in DOMAIN calls :
        (/\ calls[c].tool \in AliasTools
         /\ calls[c].pc \in {"waiting", "done"}
         /\ calls[c].raw.auth = Undef) =>
            Contains(calls[c].proc.command, <<"--auth ">> \o ExpectedDefaultAlias)

\* a payload that does not match the shape its tool declares: a required field
\* absent or of the wrong primitive type, an enumerated field outside its
\* values, or an array element that fails its own shape
ShapeViolated(tool, raw) ==
    CASE tool = "snc_auth_add" ->
            raw.instance \in {Undef, NotAString} \/ raw.type \notin AuthTypes \cup {Undef}
      [] tool = "snc_auth_use" -> raw.alias \in {Undef, NotAString}
      [] tool = "snc_init" ->
            raw.appName \in {Undef, NotAString} \/ raw.template \notin Templates \cup {Undef}
      [] tool = "snc_generate_table" ->
            \/ raw.tableName \in {Undef, NotAString}
            \/ \E i \in 1..Len(raw.columns) : raw.columns[i].type \notin ColumnTypes
      [] tool = "snc_generate_flow" ->
            \/ raw.triggerType \notin TriggerTypes
            \/ \E i \in 1..Len(raw.actions) : raw.actions[i].config = NoMap
      [] tool = "snc_generate_business_rule" ->
            \/ raw.when \notin WhenValues
            \/ \E i \in 1..Len(raw.actions) : raw.actions[i] \notin RuleActions
      [] tool = "snc_generate_acl" ->
            \/ raw.table \in {Undef, NotAString}
            \/ /\ raw.operations # NoList
               /\ \E i \in 1..Len(raw.operations) : raw.operations[i] \notin AclOperations
      [] tool = "snc_generate_role" -> raw.name \in {Undef, NotAString}
      [] tool = "snc_generate_app_menu" ->
            \E i \in 1..Len(raw.modules) : raw.modules[i].order = NotANumber
      [] tool = "snc_generate_workspace" ->
            \E i \in 1..Len(raw.tables) : raw.tables[i].primary = NotANumber
      [] OTHER -> FALSE

\* C7: a call whose payload fails its tool's declared shape is rejected before
\* the handler runs: it never has a subprocess spawned, never gets generated
\* output, and is answered with the validation failure alone; and no call is
\* answered with a validation failure after a spawn or a handler's output.
C7_RejectedBeforeHandler ==
    \A c \in DOMAIN calls :
        /\ (calls[c].pc # "idle" /\ ShapeViolated(calls[c].tool, calls[c].raw)) =>
              /\ calls[c].pc \in {"received", "rejected"}
              /\ calls[c].spawns = 0
              /\ calls[c].proc = NoProc
              /\ calls[c].pc = "received" => calls[c].resp = NoResp
        /\ calls[c].pc = "rejected" =>
              /\ ShapeViolated(calls[c].tool, calls[c].raw)
              /\ calls[c].invalid # {}
              /\ calls[c].spawns = 0
              /\ calls[c].proc = NoProc
              /\ calls[c].resp = [text |-> <<"Invalid arguments for tool ", calls[c].tool>>,
                                  isError |-> TRUE, blocks |-> 1]

\* a call of snc_init with a template outside the enumeration has been rejected
C7_Witness ==
    \E c \in DOMAIN calls :
        /\ calls[c].pc = "rejected"
        /\ calls[c].tool = "snc_init"
        /\ calls[c].raw.template = <<"k">>
        /\ calls[c].invalid = {"template"}

\* the first and the last token of a generated document
DocumentOpeners ==
    {"import { ",
     "import { action, Flow, wfa, trigger } from '@servicenow/sdk/automation'\n\n",
     "import { BusinessRule } from '@servicenow/sdk/core'\n",
     "import { Acl } from '@servicenow/sdk/core'\n",
     "import { Role } from '@servicenow/sdk/core'\n\n",
     "import { ApplicationMenu, Record } from '@servicenow/sdk/core'\n",
     "import { Record, List } from '@servicenow/sdk/core'\n\n"}

DocumentClosers == {"})\n", ")\n", "})\n\n", "\n"}

\* C8: every answer is either a complete success or a complete failure: no
\* call has any answer before it is finished, a finished call has exactly one
\* text block, the error flag is set exactly when the payload was rejected or
\* the subprocess failed, and a generator tool's answer on a validated payload
\* is a whole document without the error flag.
C8_CompleteResponses ==
    \A c \in DOMAIN calls :
        /\ calls[c].pc \in {"idle", "received", "waiting"} => calls[c].resp = NoResp
        /\ calls[c].pc \in {"done", "rejected"} =>
              /\ calls[c].resp.blocks = 1
              /\ calls[c].resp.isError <=>
                    (calls[c].pc = "rejected" \/ calls[c].outcome.kind \in FailKinds)
        /\ (calls[c].pc = "done" /\ calls[c].tool \in GenTools) =>
              /\ ~calls[c].resp.isError
              /\ calls[c].spawns = 0
              /\ calls[c].resp.text[1] \in DocumentOpeners
              /\ calls[c].resp.text[Len(calls[c].resp.text)] \in DocumentClosers
        /\ (calls[c].tool \in GenTools /\ ~ShapeViolated(calls[c].tool, calls[c].raw)) =>
              calls[c].pc \in {"received", "done"}

\* a subprocess killed at the timeout after it wrote to standard error has been
\* answered
C8_Witness ==
    \E c \in DOMAIN calls :
        /\ calls[c].pc = "done"
        /\ calls[c].outcome.kind = "timeout"
        /\ calls[c].outcome.stderr = <<"o">>
        /\ calls[c].resp.isError

\* the subprocess options and the answer a server handling this call alone,
\* fresh from its start, gives it
AloneProc(k) ==
    LET h == Handler(k.tool, Parsed(k.tool, k.raw), LoadDefaultAuth(envAlias))
    IN  IF h.kind = "spawn"
        THEN [command |-> h.command,
              cwd |-> IF "directory" \in DOMAIN k.raw /\ k.raw.directory \notin {Undef, <<>>}
                      THEN k.raw.directory
                      ELSE ProcessCwd,
              timeout |-> 120000, FORCE_COLOR |-> "0"]
        ELSE NoProc

AloneResp(k) ==
    LET h == Handler(k.tool, Parsed(k.tool, k.raw), LoadDefaultAuth(envAlias))
    IN  IF k.pc # "done" THEN NoResp
        ELSE IF h.kind = "respond" THEN [text |-> h.text, isError |-> FALSE, blocks |-> 1]
        ELSE IF k.outcome.kind = "ok" THEN runSdkResolve(k.outcome)
        ELSE runSdkCatch(k.outcome)

\* C9: calls in flight together do not interfere: the state shared by the
\* handlers never changes, a call suspended on its subprocess leaves every
\* other call able to take its next step, and what each call spawns and answers
\* is what it would spawn and answer were it the only call.
C9_NoInterference ==
    /\ DEFAULT_AUTH = LoadDefaultAuth(envAlias)
    /\ \A c \in DOMAIN calls :
          calls[c].pc \in {"waiting", "done"} =>
              /\ calls[c].proc = AloneProc(calls[c])
              /\ calls[c].resp = AloneResp(calls[c])
    /\ \A c \in DOMAIN calls : \A d \in DOMAIN calls \ {c} :
          calls[c].pc = "waiting" =>
              /\ calls[d].pc = "idle" => ENABLED Receive(d, "server")
              /\ calls[d].pc = "received" =>
                    ENABLED (Reject(d) \/ HandleRespond(d) \/ HandleSpawn(d))
              /\ calls[d].pc = "waiting" =>
                    ENABLED (ExecResolve(d, "server") \/ ExecReject(d, "server"))

\* a call that used the default alias has been answered while another call,
\* which set an alias with snc_auth_use, is still suspended on its subprocess
C9_Witness ==
    \E c \in DOMAIN calls : \E d \in DOMAIN calls \ {c} :
        /\ calls[c].pc = "waiting"
        /\ calls[c].tool = "snc_auth_use"
        /\ calls[d].pc = "done"
        /\ calls[d].tool = "snc_init"
        /\ calls[d].raw.auth = Undef

\* C10: the Identifier Normalizer is idempotent, and its result is the input
\* with every character outside [A-Za-z0-9_] replaced by "_" and every
\* upper-case letter lowered, so it has the input's length and holds only
\* lower-case letters, digits and underscores.
C10_NormalizeIdempotent ==
    /\ norm.pc \in {"once", "twice"} =>
          /\ Len(norm.once) = Len(norm.s)
          /\ \A i \in 1..Len(norm.s) :
                /\ norm.once[i] \in Range(LowerCase) \cup Digit \cup {"_"}
                /\ norm.s[i] \in Range(LowerCase) \cup Digit \cup {"_"} =>
                      norm.once[i] = norm.s[i]
                /\ norm.s[i] \in Range(UpperCase) =>
                      \E j \in 1..26 : UpperCase[j] = norm.s[i] /\ LowerCase[j] = norm.once[i]
                /\ norm.s[i] \notin Range(UpperCase) \cup Range(LowerCase) \cup Digit \cup {"_"}
                      => norm.once[i] = "_"
    /\ norm.pc = "twice" => norm.twice = norm.once
    /\ norm.pc = "input" => ENABLED NormalizeOnce

\* a string with an upper-case letter and two characters outside the class has
\* been normalized twice
C10_Witness ==
    /\ norm.pc = "twice"
    /\ norm.s = <<" ", "A", "-">>
    /\ norm.once = <<"_", "a", "_">>

-----------------------------------------------------------------------------
(* The emitted documents: reading identifiers, blocks and lines back *)

\* a finished call of a generator tool on a validated payload
Emitted(k) == k.pc = "done" /\ k.tool \in GenTools

\* the positions of the text that hold one of the given template chunks
Positions(text, chunks) == {i \in 1..Len(text) : text[i] \in chunks}

\* the chunks of the text that are among the given ones, in the text's order
Chunks(text, chunks) == SelectSeq(text, LAMBDA t : t \in chunks)

\* the template chunks after which an emitter writes a generated variable
\* name or $id key
IdOpeners ==
    {"export const ", "const ", "        const ",
     "        $id: Now.ID['", "        { $id: Now.ID['", "            { $id: Now.ID['",
     "    $id: Now.ID['", "        master_config: Now.ID['"}

\* the template chunks that end a generated variable name or $id key
IdClosers ==
    {" = Table({\n", " = Flow(\n", " = Role({\n", " = ApplicationMenu({\n",
     " = Record({\n", "_result = wfa.action(\n", "'],\n", "'] },\n",
     "_trigger'] },\n"}

\* the characters written from position i + 1 up to the next closing chunk
IdentAfter(text, i) ==
    LET j == CHOOSE n \in (i + 1)..Len(text) :
                 /\ text[n] \in IdClosers
                 /\ \A m \in (i + 1)..(n - 1) : text[m] \notin IdClosers
    IN  SubSeq(text, i + 1, j - 1)

GeneratedIds(text) == {IdentAfter(text, i) : i \in Positions(text, IdOpeners)}

IsIdentifier(s) == \A i \in 1..Len(s) : s[i] \in Range(LowerCase) \cup Digit \cup {"_"}

\* C11: every generated variable name and $id key of every emitted document
\* holds only lower-case letters, digits and underscores, as the Identifier
\* Normalizer's results do.
C11_IdentifiersNormalized ==
    \A c \in DOMAIN calls :
        Emitted(calls[c]) =>
            \A id \in GeneratedIds(calls[c].resp.text) : IsIdentifier(id)

\* the chunk that opens the body of the action template of each type, and
\* the chunk only that template writes
ActionTemplate(type) ==
    CASE type = <<"log">>          -> <<"            action.core.log,\n",
                                        "                log_level: '">>
      [] type = <<"updateRecord">> -> <<"            action.core.updateRecord,\n",
                                        "                values: {\n">>
      [] type = <<"sendEmail">>    -> <<"            action.core.sendEmail,\n",
                                        "                ah_subject: '">>
      [] type = <<"lookUpRecord">> -> <<"            action.core.lookUpRecord,\n",
                                        "                sort_type: 'sort_asc',\n">>

ActionChunks == UNION {Range(ActionTemplate(t)) : t \in ActionTypes}

\* the chunks that open and close an action block
ActionOpeners == {"        wfa.action(\n", "_result = wfa.action(\n"}
ActionClosers == {"        )\n\n"}

\* C12: a flow document holds exactly one action block per action of the
\* request, and the i-th block is the template of the i-th action's type,
\* whatever the mix of types.
C12_FlowActionBlocks ==
    \A c \in DOMAIN calls :
        (Emitted(calls[c]) /\ calls[c].tool = "snc_generate_flow") =>
            LET text == calls[c].resp.text
                acts == calls[c].args.actions
            IN  /\ Len(Chunks(text, ActionOpeners)) = Len(acts)
                /\ Len(Chunks(text, ActionClosers)) = Len(acts)
                /\ Chunks(text, ActionChunks)
                      = Concat([i \in 1..Len(acts) |-> ActionTemplate(acts[i].type)])

\* a flow of three actions of three different types has been emitted
C12_Witness ==
    \E c \in DOMAIN calls :
        /\ Emitted(calls[c])
        /\ calls[c].tool = "snc_generate_flow"
        /\ calls[c].args.actions = <<actEmail, actLookup, actLog>>
        /\ Len(Chunks(calls[c].resp.text, ActionClosers)) = 3

\* the tokens written right after each occurrence of a chunk, in the text's
\* order
RECURSIVE After(_, _)
After(text, chunk) ==
    IF Len(text) < 2 THEN <<>>
    ELSE IF Head(text) = chunk
         THEN <<text[2]>> \o After(Tail(text), chunk)
         ELSE After(Tail(text), chunk)

\* C13: an ACL request without operations yields exactly four Acl blocks, for
\* create, read, write and delete in that order; a request with operations
\* yields one block per element, in input order.
C13_AclBlocks ==
    \A c \in DOMAIN calls :
        (Emitted(calls[c]) /\ calls[c].tool = "snc_generate_acl") =>
            LET text == calls[c].resp.text
                ops  == After(text, "    operation: '")
            IN  /\ Len(Chunks(text, {"Acl({\n"})) = Len(ops)
                /\ Len(Chunks(text, {"})\n\n"})) = Len(ops)
                /\ calls[c].raw.operations = NoList =>
                      ops = <<"create", "read", "write", "delete">>
                /\ calls[c].raw.operations # NoList =>
                      ops = [i \in 1..Len(calls[c].raw.operations) |->
                                calls[c].raw.operations[i][1]]

\* an ACL request without operations has been answered with four blocks
C13_Witness ==
    \E c \in DOMAIN calls :
        /\ Emitted(calls[c])
        /\ calls[c].tool = "snc_generate_acl"
        /\ calls[c].raw.operations = NoList
        /\ Len(Chunks(calls[c].resp.text, {"Acl({\n"})) = 4

\* the positions of a chunk, in increasing order
PositionSeq(text, chunk) ==
    SelectSeq([i \in 1..Len(text) |-> i], LAMBDA i : text[i] = chunk)

\* the position of the first of the closing chunks after position i
NextOf(text, i, closers) ==
    CHOOSE n \in (i + 1)..Len(text) :
        /\ text[n] \in closers
        /\ \A m \in (i + 1)..(n - 1) : text[m] \notin closers

\* the position of the last of the opening chunks before position i
PrevOf(text, i, openers) ==
    CHOOSE n \in 1..(i - 1) :
        /\ text[n] \in openers
        /\ \A m \in (n + 1)..(i - 1) : text[m] \notin openers

\* what is written between position i and the next closing chunk, and between
\* the previous opening chunk and position i
FieldAfter(text, i, closers) == SubSeq(text, i + 1, NextOf(text, i, closers) - 1)
FieldBefore(text, i, openers) == SubSeq(text, PrevOf(text, i, openers) + 1, i - 1)

\* the choice entries of a table document: key, label and sequence number
ChoiceEntries(text) ==
    LET at == PositionSeq(text, ": { label: '")
    IN  [n \in 1..Len(at) |->
            [k   |-> FieldBefore(text, at[n], {"            "}),
             v   |-> FieldAfter(text, at[n], {"', sequence: "}),
             seq |-> text[NextOf(text, at[n], {"', sequence: "}) + 1]]]

\* the entries the choice columns of a request call for: each mapping's
\* entries in its iteration order, numbered from 1
ChoicesOf(columns) ==
    Concat([c \in 1..Len(columns) |->
               IF columns[c].type = <<"choice">> /\ columns[c].choices # NoMap
               THEN [j \in 1..Len(columns[c].choices) |->
                        [k   |-> columns[c].choices[j].k,
                         v   |-> columns[c].choices[j].v,
                         seq |-> ToString(j)]]
               ELSE <<>>])

\* C14: the choice entries of a choice column with an n-entry mapping carry
\* the sequence numbers 1..n in the mapping's iteration order, each with its
\* own key and label.
C14_ChoiceSequences ==
    \A c \in DOMAIN calls :
        (Emitted(calls[c]) /\ calls[c].tool = "snc_generate_table") =>
            ChoiceEntries(calls[c].resp.text) = ChoicesOf(calls[c].args.columns)

\* a table with the choice column {open: 'O', closed: 'C'} has been emitted
\* with open numbered 1 and closed numbered 2
C14_Witness ==
    \E c \in DOMAIN calls :
        /\ Emitted(calls[c])
        /\ calls[c].tool = "snc_generate_table"
        /\ \E i \in 1..Len(calls[c].args.columns) : calls[c].args.columns[i] = colChoice
        /\ ChoiceEntries(calls[c].resp.text)
              = << [k |-> <<"open">>, v |-> <<"O">>, seq |-> "1"],
                   [k |-> <<"closed">>, v |-> <<"C">>, seq |-> "2"] >>

\* what a document writes after the first occurrence of a chunk, up to the
\* next closing chunk
FirstField(text, chunk, closers) ==
    FieldAfter(text, PositionSeq(text, chunk)[1], closers)

RoleExport(text) == FirstField(text, "export const ", {" = Role({\n"})

\* the name and description lines of a role document hold the request's
\* values as they were given
RoleVerbatim(k) ==
    /\ FirstField(k.resp.text, "    name: '", {"',\n"}) = k.args.name
    /\ FirstField(k.resp.text, "    description: '", {"',\n"}) = k.args.description

\* C15 as stated: without exportName the role document exports the normalized
\* last dot-separated segment of name; with exportName it exports exportName;
\* name and description are written verbatim.
C15_RoleExportAsStated ==
    \A c \in DOMAIN calls :
        (Emitted(calls[c]) /\ calls[c].tool = "snc_generate_role") =>
            /\ RoleVerbatim(calls[c])
            /\ RoleExport(calls[c].resp.text)
                  = IF calls[c].args.exportName = Undef
                    THEN idKey(LastSegment(calls[c].args.name))
                    ELSE calls[c].args.exportName

\* C15: the role document exports exportName when it is supplied and not
\* empty; otherwise the normalized last dot-separated segment of name, or the
\* normalized whole name when that segment is empty; name and description are
\* written verbatim.
C15_RoleExport ==
    \A c \in DOMAIN calls :
        (Emitted(calls[c]) /\ calls[c].tool = "snc_generate_role") =>
            /\ RoleVerbatim(calls[c])
            /\ RoleExport(calls[c].resp.text)
                  = IF calls[c].args.exportName \notin {Undef, <<>>}
                    THEN calls[c].args.exportName
                    ELSE IF LastSegment(calls[c].args.name) # <<>>
                    THEN idKey(LastSegment(calls[c].args.name))
                    ELSE idKey(calls[c].args.name)

\* the role x.Ro has been emitted without exportName, exported as ro
C15_Witness ==
    \E c \in DOMAIN calls :
        /\ Emitted(calls[c])
        /\ calls[c].tool = "snc_generate_role"
        /\ calls[c].args.name = sRole
        /\ calls[c].args.exportName = Undef
        /\ RoleExport(calls[c].resp.text) = <<"r", "o">>

\* the place of a chunk in an order of chunks
IndexIn(order, x) == CHOOSE i \in 1..Len(order) : order[i] = x

\* the chunks of the text that belong to the order occur in that order; the
\* order's first chunk starts a new block each time it occurs
FollowsOrder(text, order) ==
    LET seq == Chunks(text, Range(order))
    IN  \A i \in 1..(Len(seq) - 1) :
            \/ seq[i + 1] = order[1]
            \/ IndexIn(order, seq[i + 1]) > IndexIn(order, seq[i])

\* the first record of a document
FirstRecord(text) == SubSeq(text, 1, NextOf(text, 0, {"})\n\n", "})\n"}))

\* the lines of a column, a menu module and a workspace in the order their
\* fields are declared in the request shapes
DeclaredColumnOrder ==
    <<"label: '", "mandatory: true", "maxLength: ", "referenceTable: '", "choices: {\n",
      "default: '">>
DeclaredModuleOrder ==
    <<"        title: '", "        name: '", "        link_type: '", "        order: ">>
DeclaredWorkspaceOrder ==
    <<"        title: '", "        url_path: '", "        description: '">>

\* the lines in the order the templates write them
ColumnOrder ==
    <<"label: '", "mandatory: true", "maxLength: ", "default: '", "referenceTable: '",
      "choices: {\n">>
ModuleOrder ==
    <<"        title: '", "        link_type: '", "        name: '", "        order: ">>
WorkspaceOrder ==
    <<"        title: '", "        description: '", "        url_path: '">>
TableOrder ==
    <<"export const ", "    name: '", "    label: '", "    schema: {\n", "    display: '">>
FlowOrder ==
    <<"export const ", "        name: '", "        description: '",
      "        trigger.record.", "            table: '", "            condition: '",
      "    (params) => {\n">>
RuleOrder ==
    <<"function ", "    ", "BusinessRule({\n", "    name: '", "    table: '", "    when: '",
      "    action: [", "    filter_condition: '", "    script: ">>
AclOrder == <<"    operation: '", "    roles: [", "    table: '">>
RoleOrder == <<"export const ", "    name: '", "    description: '">>
MenuOrder == <<"export const ", "    title: '", "    description: '", "    roles: [">>

\* C16 as stated: the lines of a column, of a menu module and of a workspace
\* come in the order in which their fields are declared in the request shape.
C16_DeclaredFieldOrder ==
    \A c \in DOMAIN calls :
        LET k == calls[c]
        IN  /\ (Emitted(k) /\ k.tool = "snc_generate_table") =>
                  FollowsOrder(k.resp.text, DeclaredColumnOrder)
            /\ (Emitted(k) /\ k.tool = "snc_generate_app_menu") =>
                  FollowsOrder(k.resp.text, DeclaredModuleOrder)
            /\ (Emitted(k) /\ k.tool = "snc_generate_workspace") =>
                  FollowsOrder(FirstRecord(k.resp.text), DeclaredWorkspaceOrder)

\* C16: in every emitter the lines come in the fixed order of the emitter's
\* template, whatever the request: for a column label, mandatory, maxLength,
\* default, referenceTable, choices; for a menu module title, link_type, name,
\* order; for a workspace title, description, url_path.
C16_TemplateFieldOrder ==
    \A c \in DOMAIN calls :
        LET k == calls[c]
            t == k.resp.text
        IN  Emitted(k) =>
              CASE k.tool = "snc_generate_table" ->
                      FollowsOrder(t, ColumnOrder) /\ FollowsOrder(t, TableOrder)
                [] k.tool = "snc_generate_flow" -> FollowsOrder(t, FlowOrder)
                [] k.tool = "snc_generate_business_rule" -> FollowsOrder(t, RuleOrder)
                [] k.tool = "snc_generate_acl" -> FollowsOrder(t, AclOrder)
                [] k.tool = "snc_generate_role" -> FollowsOrder(t, RoleOrder)
                [] k.tool = "snc_generate_app_menu" ->
                      FollowsOrder(FirstRecord(t), MenuOrder) /\ FollowsOrder(t, ModuleOrder)
                [] k.tool = "snc_generate_workspace" ->
                      FollowsOrder(FirstRecord(t), WorkspaceOrder)

\* a table whose reference column is mandatory and has a maximum length and a
\* default value has been emitted, the default written before the reference
C16_Witness ==
    \E c \in DOMAIN calls :
        /\ Emitted(calls[c])
        /\ calls[c].tool = "snc_generate_table"
        /\ Chunks(calls[c].resp.text, Range(ColumnOrder))
              = <<"label: '", "mandatory: true", "maxLength: ", "default: '",
                  "referenceTable: '">>

\* how often a chunk occurs in a text
Count(text, chunk) == Len(Chunks(text, {chunk}))

\* how many elements of a list satisfy a condition
CountIf(xs, P(_)) == Cardinality({i \in 1..Len(xs) : P(xs[i])})

Present(v) == v # Undef

OnceIf(cond) == IF cond THEN 1 ELSE 0

\* C17 as stated: the line of an optional field is in the document if and
\* only if the request has the field, whatever its value (the empty string, 0
\* and false included).
C17_EmittedIffPresent ==
    \A c \in DOMAIN calls :
        LET k == calls[c]
            t == k.resp.text
            a == k.args
        IN  Emitted(k) =>
              CASE k.tool = "snc_generate_table" ->
                      /\ Count(t, "mandatory: true")
                            = CountIf(a.columns, LAMBDA col : Present(col.mandatory))
                      /\ Count(t, "maxLength: ")
                            = CountIf(a.columns, LAMBDA col : Present(col.maxLength))
                      /\ Count(t, "default: '")
                            = CountIf(a.columns, LAMBDA col : Present(col.defaultValue))
                      /\ Count(t, "    display: '") = OnceIf(Present(a.displayColumn))
                [] k.tool = "snc_generate_flow" ->
                      Count(t, "            condition: '") = OnceIf(Present(a.condition))
                [] k.tool = "snc_generate_business_rule" ->
                      Count(t, "    filter_condition: '") = OnceIf(Present(a.condition))
                [] k.tool = "snc_generate_acl" ->
                      /\ Count(t, "    roles: [")
                            = Len(a.operations) * OnceIf(Present(a.roleName))
                      /\ Count(t, "import { ") = OnceIf(Present(a.roleImportPath))
                [] k.tool = "snc_generate_app_menu" ->
                      /\ Count(t, "    roles: [") = OnceIf(Present(a.roleName))
                      /\ Count(t, "import { ") = OnceIf(Present(a.roleImportPath))
                [] OTHER -> TRUE

\* C17: an absent optional field leaves no line, and a present one is written
\* when its value is truthy: mandatory when true, maxLength when not 0,
\* displayColumn, condition and roleName when not empty; defaultValue is
\* written whenever it is present, the empty string included; the role import
\* line is written when roleName and roleImportPath are both non-empty.
C17_EmittedIffTruthy ==
    \A c \in DOMAIN calls :
        LET k == calls[c]
            t == k.resp.text
            a == k.args
            Filled(v) == v \notin {Undef, <<>>}
        IN  Emitted(k) =>
              CASE k.tool = "snc_generate_table" ->
                      /\ Count(t, "mandatory: true")
                            = CountIf(a.columns, LAMBDA col : col.mandatory = <<"true">>)
                      /\ Count(t, "maxLength: ")
                            = CountIf(a.columns,
                                      LAMBDA col : col.maxLength \notin {Undef, <<"0">>})
                      /\ Count(t, "default: '")
                            = CountIf(a.columns, LAMBDA col : Present(col.defaultValue))
                      /\ Count(t, "    display: '") = OnceIf(Filled(a.displayColumn))
                [] k.tool = "snc_generate_flow" ->
                      Count(t, "            condition: '") = OnceIf(Filled(a.condition))
                [] k.tool = "snc_generate_business_rule" ->
                      Count(t, "    filter_condition: '") = OnceIf(Filled(a.condition))
                [] k.tool = "snc_generate_acl" ->
                      /\ Count(t, "    roles: [")
                            = Len(a.operations) * OnceIf(Filled(a.roleName))
                      /\ Count(t, "import { ")
                            = OnceIf(Filled(a.roleName) /\ Filled(a.roleImportPath))
                [] k.tool = "snc_generate_app_menu" ->
                      /\ Count(t, "    roles: [") = OnceIf(Filled(a.roleName))
                      /\ Count(t, "import { ")
                            = OnceIf(Filled(a.roleName) /\ Filled(a.roleImportPath))
                [] OTHER -> TRUE

\* a table has been emitted whose columns hold mandatory false, maxLength 0
\* and an empty default value: only the default has a line
C17_Witness ==
    \E c \in DOMAIN calls :
        /\ Emitted(calls[c])
        /\ calls[c].tool = "snc_generate_table"
        /\ calls[c].args.columns = <<colChoice, colFalsy>>
        /\ calls[c].args.displayColumn = <<>>
        /\ Count(calls[c].resp.text, "mandatory: true") = 0
        /\ Count(calls[c].resp.text, "maxLength: ") = 0
        /\ Count(calls[c].resp.text, "default: '") = 1
        /\ Count(calls[c].resp.text, "    display: '") = 0

\* the names of the column constructors
ColumnFns == {columnTypeImport(t)[1] : t \in ColumnTypes}

\* the column blocks of a table document: the constructor each one calls and
\* what is written from there up to the next block
ColumnBlocks(text) ==
    LET s  == SubSeq(text, PositionSeq(text, "    schema: {\n")[1], Len(text))
        at == SelectSeq([i \in 1..Len(s) |-> i], LAMBDA i : s[i] \in ColumnFns)
    IN  [n \in 1..Len(at) |->
            [fn   |-> s[at[n]],
             body |-> SubSeq(s, at[n], IF n < Len(at) THEN at[n + 1] - 1 ELSE Len(s))]]

\* C18: a column that passed validation and reached the table emitter has
\* referenceTable only when its type is reference and choices only when its
\* type is choice, and its block holds referenceTable, choices and maxLength
\* only in a reference, choice and string column respectively.
C18_ColumnInvariant ==
    \A c \in DOMAIN calls :
        (Emitted(calls[c]) /\ calls[c].tool = "snc_generate_table") =>
            /\ \A i \in 1..Len(calls[c].args.columns) :
                  LET col == calls[c].args.columns[i]
                  IN  /\ col.referenceTable # Undef => col.type = <<"reference">>
                      /\ col.choices # NoMap => col.type = <<"choice">>
            /\ LET blocks == ColumnBlocks(calls[c].resp.text)
               IN  \A n \in 1..Len(blocks) :
                      /\ "referenceTable: '" \in Range(blocks[n].body)
                            => blocks[n].fn = "ReferenceColumn"
                      /\ "choices: {\n" \in Range(blocks[n].body)
                            => blocks[n].fn = "ChoiceColumn"
                      /\ "maxLength: " \in Range(blocks[n].body)
                            => blocks[n].fn = "StringColumn"

\* what is written after each occurrence of a chunk up to the next closing
\* chunk, in the text's order
FieldsAfter(text, chunk, closers) ==
    LET at == PositionSeq(text, chunk)
    IN  [n \in 1..Len(at) |-> FieldAfter(text, at[n], closers)]

\* the name each column block of a table document is written under
ColumnNames(text) ==
    LET s  == SubSeq(text, PositionSeq(text, "    schema: {\n")[1], Len(text))
        at == SelectSeq([i \in 1..Len(s) |-> i], LAMBDA i : s[i] \in ColumnFns)
    IN  [n \in 1..Len(at) |-> SubSeq(s, PrevOf(s, at[n], {"        "}) + 1, at[n] - 2)]

\* the list-view columns of each List record of a workspace document: the
\* element and the position written with it
ListViews(text) ==
    LET at == PositionSeq(text, "List({\n")
    IN  [n \in 1..Len(at) |->
            LET view == SubSeq(text, at[n], NextOf(text, at[n], {"})\n\n"}))
                els  == PositionSeq(view, "        { element: '")
            IN  [j \in 1..Len(els) |->
                    [element  |-> FieldAfter(view, els[j], {"', position: "}),
                     position |-> view[NextOf(view, els[j], {"', position: "}) + 1]]]]

\* C19: every emitter renders a collection in input order, one item per
\* element: the i-th column block, menu module record, workspace table group
\* and list-view column is that of the i-th element of columns, modules,
\* tables and listColumns.
C19_InputOrder ==
    \A c \in DOMAIN calls :
        LET k == calls[c]
            t == k.resp.text
            a == k.args
        IN  Emitted(k) =>
              CASE k.tool = "snc_generate_table" ->
                      /\ ColumnNames(t) = [i \in 1..Len(a.columns) |-> a.columns[i].name]
                      /\ [n \in 1..Len(ColumnBlocks(t)) |-> ColumnBlocks(t)[n].fn]
                            = [i \in 1..Len(a.columns) |->
                                  columnTypeImport(a.columns[i].type)[1]]
                [] k.tool = "snc_generate_app_menu" ->
                      /\ Count(t, "    table: 'sys_app_module',\n") = Len(a.modules)
                      /\ FieldsAfter(t, "        title: '", {"',\n"})
                            = [i \in 1..Len(a.modules) |-> a.modules[i].title]
                      /\ FieldsAfter(t, "        order: ", {",\n"})
                            = [i \in 1..Len(a.modules) |-> a.modules[i].order]
                [] k.tool = "snc_generate_workspace" ->
                      /\ Count(t, "    table: 'sys_aw_table',\n") = Len(a.tables)
                      /\ FieldsAfter(t, "        table: '", {"',\n"})
                            = [i \in 1..Len(a.tables) |-> a.tables[i].tableName]
                      /\ FieldsAfter(t, "    table: '", {"',\n"})
                            = [i \in 1..Len(a.tables) |-> a.tables[i].tableName]
                      /\ ListViews(t)
                            = [i \in 1..Len(a.tables) |->
                                  [j \in 1..Len(a.tables[i].listColumns) |->
                                      [element  |-> a.tables[i].listColumns[j],
                                       position |-> ToString(j - 1)]]]
                [] OTHER -> TRUE

\* a workspace of two tables, the first with three list-view columns that are
\* not in alphabetical order, has been emitted
C19_Witness ==
    \E c \in DOMAIN calls :
        /\ Emitted(calls[c])
        /\ calls[c].tool = "snc_generate_workspace"
        /\ Len(calls[c].args.tables) = 2
        /\ calls[c].args.tables[1].listColumns = << <<"s">>, <<"n">>, <<"s">> >>
        /\ Len(ListViews(calls[c].resp.text)) = 2
        /\ Len(ListViews(calls[c].resp.text)[1]) = 3

-----------------------------------------------------------------------------
(* Flow action configuration *)

\* the action blocks of a flow document, from the opening chunk to the
\* closing one, in the text's order
ActionBlocks(text) ==
    LET at == SelectSeq([i \in 1..Len(text) |-> i], LAMBDA i : text[i] \in ActionOpeners)
    IN  [n \in 1..Len(at) |-> SubSeq(text, at[n], NextOf(text, at[n], ActionClosers))]

Absent(v) == v = Undef

AbsentOrEmpty(v) == v = Undef \/ v = <<>>

\* the value of a key of a configuration, and whether the key is there
ConfigValue(config, key) ==
    LET at == {i \in 1..Len(config) : config[i].k = key}
    IN  IF at = {} THEN Undef ELSE config[CHOOSE i \in at : TRUE].v

\* the quoted fields the template of an action writes from its configuration:
\* the chunk that opens the field and the value expected in it, the default
\* standing in for a value that is missing
ConfiguredFields(act, table, Missing(_)) ==
    LET Field(chunk, key, default) ==
            [f |-> chunk,
             v |-> IF Missing(ConfigValue(act.config, key))
                   THEN default
                   ELSE ConfigValue(act.config, key)]
    IN  CASE act.type = <<"log">> ->
                << Field("                log_level: '", <<"level">>, <<"info">>),
                   Field("                log_message: '", <<"message">>,
                         <<"Flow executed">>) >>
          [] act.type = <<"updateRecord">> ->
                << Field("                table_name: '", <<"table">>, table) >>
          [] act.type = <<"sendEmail">> ->
                << Field("                ah_subject: '", <<"subject">>, <<"Notification">>),
                   Field("                ah_body: '", <<"body">>, <<>>),
                   Field("                ah_to: '", <<"to">>, <<>>) >>
          [] act.type = <<"lookUpRecord">> ->
                << Field("                table: '", <<"table">>, <<"sys_user">>),
                   Field("                conditions: '", <<"conditions">>, <<>>) >>

\* the field assignments written in the values of an update block
Assignments(block) ==
    LET at == PositionSeq(block, "                    ")
    IN  [n \in 1..Len(at) |->
            [k |-> FieldAfter(block, at[n], {": '"}),
             v |-> FieldAfter(block, NextOf(block, at[n], {": '"}), {"',\n"})]]

\* every action block of every flow document holds the configured fields of
\* its action, and an update block the assignments of the keys other than
\* table, in the configuration's order
FlowConfigRendered(Missing(_)) ==
    \A c \in DOMAIN calls :
        (Emitted(calls[c]) /\ calls[c].tool = "snc_generate_flow") =>
            LET acts   == calls[c].args.actions
                blocks == ActionBlocks(calls[c].resp.text)
            IN  /\ Len(blocks) = Len(acts)
                /\ \A i \in 1..Len(acts) :
                      LET fields == ConfiguredFields(acts[i], calls[c].args.table, Missing)
                      IN  /\ \A n \in 1..Len(fields) :
                                 FirstField(blocks[i], fields[n].f, {"',\n"}) = fields[n].v
                          /\ acts[i].type = <<"updateRecord">> =>
                                 Assignments(blocks[i])
                                    = SelectSeq(acts[i].config,
                                                LAMBDA e : e.k # <<"table">>)

\* C21 as stated: an action template writes the fallback default of a
\* configuration key exactly when the key is absent and the supplied value
\* otherwise (info and Flow executed for a log action), and an update writes
\* every key other than table as a field assignment, in the mapping's order.
C21_DefaultWhenAbsent == FlowConfigRendered(Absent)

\* C21: an action template writes the fallback default of a configuration key
\* exactly when the key is absent or holds the empty string, and the supplied
\* value otherwise (info and Flow executed for a log action); an update writes
\* every key other than table as a field assignment, in the mapping's order.
C21_DefaultWhenAbsentOrEmpty == FlowConfigRendered(AbsentOrEmpty)

\* a flow of a log action with a level and no message and a log action whose
\* level and message are empty has been emitted with the levels w and info
C21_Witness ==
    \E c \in DOMAIN calls :
        /\ Emitted(calls[c])
        /\ calls[c].tool = "snc_generate_flow"
        /\ calls[c].args.actions = <<actLogLevel, actLogEmpty>>
        /\ FieldsAfter(calls[c].resp.text, "                log_level: '", {"',\n"})
              = << <<"w">>, <<"info">> >>
        /\ FieldsAfter(calls[c].resp.text, "                log_message: '", {"',\n"})
              = << <<"Flow executed">>, <<"Flow executed">> >>

-----------------------------------------------------------------------------
(* Keys of one document *)

\* the template chunks after which an emitter writes the $id key of an object
KeyOpeners ==
    {"        $id: Now.ID['", "        { $id: Now.ID['", "            { $id: Now.ID['",
     "    $id: Now.ID['"}

\* the template chunks after which an emitter declares a constant
ConstOpeners == {"export const ", "const ", "        const "}

\* the fixed ending of a name that its closing chunk holds
SuffixIn(closer) ==
    CASE closer = "_trigger'] },\n"          -> <<"_trigger">>
      [] closer = "_result = wfa.action(\n" -> <<"_result">>
      [] OTHER                               -> <<>>

\* the names written after the given opening chunks, in the text's order
NamesAfter(text, openers) ==
    LET at == SelectSeq([i \in 1..Len(text) |-> i], LAMBDA i : text[i] \in openers)
    IN  [n \in 1..Len(at) |->
            IdentAfter(text, at[n]) \o SuffixIn(text[NextOf(text, at[n], IdClosers)])]

NoRepeats(xs) == \A i, j \in 1..Len(xs) : xs[i] = xs[j] => i = j

\* C22: in every flow, menu, ACL and workspace document the $id keys are
\* pairwise distinct, and so are the names of the declared constants.
C22_DistinctKeys ==
    \A c \in DOMAIN calls :
        (/\ Emitted(calls[c])
         /\ calls[c].tool \in {"snc_generate_flow", "snc_generate_app_menu",
                               "snc_generate_acl", "snc_generate_workspace"}) =>
            /\ NoRepeats(NamesAfter(calls[c].resp.text, KeyOpeners))
            /\ NoRepeats(NamesAfter(calls[c].resp.text, ConstOpeners))

-----------------------------------------------------------------------------
(* Role references and role imports *)

\* the identifiers of the roles lines and of the role import lines of a
\* document, in the text's order
RolesLines(text) == FieldsAfter(text, "    roles: [", {"],\n"})
RoleImports(text) == FieldsAfter(text, "import { ", {" } from '"})

RoleTools == {"snc_generate_acl", "snc_generate_app_menu"}

-----------------------------------------------------------------------------
(* The import list of a table document *)

\* the names of the import list of a table document, in the text's order
ImportNames(text) ==
    SelectSeq(FirstField(text, "import { ", {" } from '@servicenow/sdk/core'\n\n"}),
              LAMBDA t : t # ", ")

\* the letters of a name that a table document can import, up to the C of
\* Column, before which any two of the names differ
Letters(name) ==
    CASE name = "Table"           -> <<"T", "a", "b", "l", "e">>
      [] name = "StringColumn"    -> <<"S", "t", "r", "i", "n", "g", "C">>
      [] name = "IntegerColumn"   -> <<"I", "n", "t", "e", "g", "e", "r", "C">>
      [] name = "BooleanColumn"   -> <<"B", "o", "o", "l", "e", "a", "n", "C">>
      [] name = "DateColumn"      -> <<"D", "a", "t", "e", "C">>
      [] name = "DateTimeColumn"  -> <<"D", "a", "t", "e", "T", "i", "m", "e", "C">>
      [] name = "DecimalColumn"   -> <<"D", "e", "c", "i", "m", "a", "l", "C">>
      [] name = "ReferenceColumn" -> <<"R", "e", "f", "e", "r", "e", "n", "c", "e", "C">>
      [] name = "ChoiceColumn"    -> <<"C", "h", "o", "i", "c", "e", "C">>

\* the place of a letter in the order of the UTF-16 code units: the capitals
\* come before the small letters
CodeUnitRank(ch) ==
    LET letters == UpperCase \o LowerCase
    IN  CHOOSE i \in DOMAIN letters : letters[i] = ch

\* s comes before t in the order Array.prototype.sort gives to strings
RECURSIVE ComesBefore(_, _)
ComesBefore(s, t) ==
    IF t = <<>> THEN FALSE
    ELSE IF s = <<>> THEN TRUE
    ELSE IF Head(s) # Head(t) THEN CodeUnitRank(Head(s)) < CodeUnitRank(Head(t))
    ELSE ComesBefore(Tail(s), Tail(t))

\* C24: the import list of every table document holds exactly Table and the
\* constructor of each column type of the request, every name once and in
\* ascending order; so every constructor called in the schema block is
\* imported and every imported constructor is called there.
C24_TableImports ==
    \A c \in DOMAIN calls :
        (Emitted(calls[c]) /\ calls[c].tool = "snc_generate_table") =>
            LET text    == calls[c].resp.text
                columns == calls[c].args.columns
                names   == ImportNames(text)
                called  == {ColumnBlocks(text)[n].fn : n \in 1..Len(ColumnBlocks(text))}
            IN  /\ Range(names)
                      = {"Table"} \cup {columnTypeImport(columns[i].type)[1] :
                                           i \in 1..Len(columns)}
                /\ \A i, j \in 1..Len(names) :
                      i < j => ComesBefore(Letters(names[i]), Letters(names[j]))
                /\ Range(names) = {"Table"} \cup called

\* a table of five columns of four types, one type twice and not in
\* alphabetical order, has been emitted with five imported names
C24_Witness ==
    \E c \in DOMAIN calls :
        /\ Emitted(calls[c])
        /\ calls[c].tool = "snc_generate_table"
        /\ calls[c].args.columns = <<colDateTime, colDate, colDecimal, colBool, colDateTime>>
        /\ ImportNames(calls[c].resp.text)
              = <<"BooleanColumn", "DateColumn", "DateTimeColumn", "DecimalColumn", "Table">>

====
